---- MODULE Spec2Model ----
(***************************************************************************)
(* Model of the archive, vsi and fingerprint crates of                     *)
(* fossas/foundation-libs:                                                 *)
(*   - expand::walk  (src/archive/src/expand/walk.rs): the walker thread,  *)
(*     its rendezvous channel and the consumer holding Entry values;       *)
(*   - expand::all   (src/archive/src/expand/all.rs): batch expansion;     *)
(*   - vsi::run      (src/vsi/src/lib.rs) with scan::artifacts, upload,    *)
(*     the fs_worker thread and wait_forensics;                            *)
(*   - Expansion::cleanup, persist and Drop (src/archive/src/lib.rs);      *)
(*   - strategy::List::expand (src/archive/src/strategy.rs);               *)
(*   - fingerprint_stream (src/fingerprint/src/lib.rs) with raw and        *)
(*     comment_stripped (src/fingerprint/src/fingerprint.rs).              *)
(* Paths are sequences of tokens: name parts, extensions, the separator    *)
(* "/" and the archive postfix literal.  Directories on disk are numbered: *)
(* 0 is the scan root, 1.. are the directories made by strategies.expand.  *)
(***************************************************************************)
EXTENDS Integers, Sequences, FiniteSets, TLC

\* ---------------------------------------------------------------- bounds
\* Largest Recursion::Enabled{depth} drawn for a run.
MaxDepth == 2
\* Largest number of Entry values the consumer keeps alive at once.
MaxHeld == 2
\* Largest number of entries WalkDir yields for a vsi scan.
MaxFiles == 4
\* Largest number of forensics_status polls followed in one wait_forensics.
MaxPolls == 3
\* scan.rs sets ARTIFACT_BUFFER_LIMIT to 1000; the model scales it down, the
\* batching rules do not depend on its value.
ARTIFACT_BUFFER_LIMIT == 2

\* ------------------------------------------------------- sequence helpers
EndsWith(s, suffix) ==
    /\ Len(suffix) <= Len(s)
    /\ SubSeq(s, Len(s) - Len(suffix) + 1, Len(s)) = suffix

\* Index of the last "/" of a path, 0 when there is none.
LastSep(p) ==
    IF \E i \in 1..Len(p) : p[i] = "/"
    THEN CHOOSE i \in 1..Len(p) : p[i] = "/" /\ \A j \in (i+1)..Len(p) : p[j] # "/"
    ELSE 0

\* Path::file_name: the tokens after the last separator.
FileName(p) == SubSeq(p, LastSep(p) + 1, Len(p))

\* ------------------------------------------------------------- constants
DEFAULT_ARCHIVE_POSTFIX == "!_fossa.virtual_!"

SUPPORTED_EXTS ==
    { <<".zip">>, <<".tar">>, <<".tar", ".gz">>, <<".tar", ".xz">>,
      <<".tar", ".bz2">>, <<".rpm">> }

\* Mutant of ext_is_supported: only the last extension is looked at.
ext_is_supported_by_last_ext(path) ==
    /\ FileName(path) # <<>>
    /\ \E ext \in SUPPORTED_EXTS : FileName(path)[Len(FileName(path))] = ext[Len(ext)]

ext_is_supported(path) ==
    /\ FileName(path) # <<>>
    /\ \E ext \in SUPPORTED_EXTS : EndsWith(FileName(path), ext)

\* ------------------------------------------------------------ file trees
\* What WalkDir yields for a directory, in walk order.  type is "file" (an
\* entry whose path is_file), "dir" (any other entry) or "err" (an entry
\* walkdir fails to read); valid tells whether the
\* archive library can decompress the file; content names the tree the
\* archive decompresses to.
FileEnt(rel, valid, content) ==
    [type |-> "file", rel |-> rel, valid |-> valid, content |-> content]
DirEnt(rel) == [type |-> "dir", rel |-> rel, valid |-> FALSE, content |-> "none"]
ErrEnt(rel) == [type |-> "err", rel |-> rel, valid |-> FALSE, content |-> "none"]

Tree(id) ==
    CASE id = "plain"  -> << FileEnt(<<"x", ".txt">>, FALSE, "none"),
                             DirEnt(<<"d">>),
                             FileEnt(<<"d", "/", "y", ".txt">>, FALSE, "none") >>
      [] id = "simple" -> << DirEnt(<<"simple">>),
                             FileEnt(<<"simple", "/", "a", ".txt">>, FALSE, "none") >>
      [] id = "inner"  -> << FileEnt(<<"in", ".zip">>, TRUE, "simple"),
                             FileEnt(<<"c", ".txt">>, FALSE, "none") >>
      [] id = "mixed"  -> << FileEnt(<<"n", ".tar", ".gz">>, TRUE, "inner"),
                             FileEnt(<<"bad", ".zip">>, FALSE, "none"),
                             ErrEnt(<<"locked">>),
                             FileEnt(<<"x", ".txt">>, FALSE, "none") >>
      [] id = "nested" -> << FileEnt(<<"n", ".tar", ".gz">>, TRUE, "inner"),
                             FileEnt(<<"bad", ".zip">>, FALSE, "none"),
                             FileEnt(<<"x", ".txt">>, FALSE, "none") >>
      [] id = "loop"   -> << FileEnt(<<"loop", ".zip">>, TRUE, "loop") >>
      [] id = "pair"   -> << FileEnt(<<"a", ".zip">>, TRUE, "simple"),
                             FileEnt(<<"b", ".tar">>, TRUE, "inner") >>
      [] OTHER         -> << >>

\* The scan roots a run may be given: path is Target.root, kind what lies at
\* that path, tree the directory's content (for a symbolic link, that of
\* the directory it points to), valid/content describe a root that is a file.
RootRec(kind, path, tree, valid, content) ==
    [kind |-> kind, path |-> path, tree |-> tree, valid |-> valid, content |-> content]

Roots ==
    { RootRec("dir",     <<"proj">>,           "plain", FALSE, "none"),
      RootRec("dir",     <<"proj">>,           "mixed", FALSE, "none"),
      RootRec("dir",     <<"proj">>,           "nested", FALSE, "none"),
      RootRec("dir",     <<"proj">>,           "loop",  FALSE, "none"),
      RootRec("dir",     <<"proj">>,           "pair",  FALSE, "none"),
      RootRec("file",    <<"r", ".zip">>,      "none",  TRUE,  "inner"),
      RootRec("file",    <<"r", ".zip">>,      "none",  TRUE,  "loop"),
      RootRec("file",    <<"notes", ".txt">>,  "none",  FALSE, "none"),
      RootRec("symlink", <<"link">>,           "plain", FALSE, "none"),
      RootRec("missing", <<"gone">>,           "none",  FALSE, "none") }

\* ---------------------------------------------------------------- options
DefaultFilter == [include |-> {}, exclude |-> {}]

Filters ==
    { DefaultFilter,
      [include |-> {}, exclude |-> {<<"x", ".txt">>}],
      [include |-> {<<"d">>}, exclude |-> {}] }

Recursions ==
    {[enabled |-> FALSE, depth |-> 0]} \cup
    {[enabled |-> TRUE, depth |-> n] : n \in 0..MaxDepth}

\* The postfixes a run may be given: none, the default, and one that ends
\* with a separator.
Postfixes == {<<>>, <<DEFAULT_ARCHIVE_POSTFIX>>, <<"~v", "/">>}

OptionSet ==
    [recursion : Recursions, filter : Filters, archive_postfix : Postfixes]

VARIABLES
    root,       \* Target.root
    options,    \* Options
    tmp,        \* directories made by strategies.expand, in creation order
    tmpExists,  \* which of them are on disk
    queue,      \* walk_inner: VecDeque<WalkTarget>
    cur,        \* walk_inner: the Arc<WalkTarget> being iterated (0 or 1 element)
    idx,        \* position of the WalkDir iterator in the current target
    wpc,        \* walker thread: "pop", "iter", "send", "exit"
    pending,    \* the item the walker is blocked sending (0 or 1 element)
    rxOpen,     \* the receiver (the iterator returned by walk) is alive
    received,   \* the items the consumer got, in order
    live,       \* indexes into received of the Entry values still alive
    a_pc,       \* expand::all: "idle", "start", "loop", "done"
    stack,      \* expand::all: VecDeque<(usize, Attempt)>
    locations,  \* Expansion.locations
    warnings,   \* Expansion.warnings
    a_result,   \* what expand::all returned
    mode,       \* vsi: the entry point, "run" (lib.rs) or "main_full" (main.rs)
    export,     \* vsi: config::Export, "ScanID" or "Locators"
    scanDir,    \* vsi: what WalkDir yields under Options.root, in order
    r_pc,       \* vsi::run: "idle", "create", "scan", "complete", "wait", "export", "done"
    r_result,   \* vsi::run: what it returned
    calls,      \* the requests made of the Client, in order, with their outcome
    fs_pc,      \* fs_worker thread: "idle", "run", "exit"
    fs_result,  \* fs_worker: what it returned
    yielded,    \* fs_worker: how many entries the serial iterator has yielded
    produced,   \* fs_worker: the counter kept by inspect
    tasks,      \* fs_worker: per rayon thread, the entry it is sending (0 = none)
    w_err,      \* fs_worker: the first error met by try_for_each
    chan,       \* scan::artifacts: the mpsc channel's buffer
    rxAlive,    \* scan::artifacts: the Receiver has not been dropped
    cancelled,  \* scan::walk::Context: the token has been cancelled
    u_pc,       \* upload: "idle", "recv", "append", "final", "done", "dropped"
    buf,        \* upload: buf
    uploaded,   \* upload: uploaded
    u_rcvd,     \* upload: the artifacts recv returned, in order
    batches,    \* the Vec<Artifact> values passed to Sink::append_scan, in order
    u_result,   \* upload: what it returned
    s_result,   \* scan::artifacts: what it returned
    last_status,\* wait_forensics: last_status (0 or 1 element)
    polls,      \* wait_forensics: one record per loop iteration, in order
    e_pc,       \* the Expansion returned by all: "held", "persisted", "dropped"
    cleanups,   \* one record per run of Expansion::cleanup, in order
    p_result,   \* what Expansion::persist returned (0 or 1 element)
    l_archive,  \* List::expand: the path it is called with
    l_open,     \* List::expand: whether File::open of that path works, "ok" or "io"
    l_valid,    \* List::expand: whether the archive library can decompress the file
    l_i,        \* List::expand: the strategy the loop is at (0 before the call)
    l_consulted,\* List::expand: the can_expand calls made and their answers, in order
    l_result,   \* List::expand: what it returned
    f_stream,   \* fingerprint_stream: the bytes of the stream
    f_pc,       \* fingerprint_stream: "idle", "raw", "stripped", "lines", "other", "done"
    f_check,    \* the last BinaryCheck made by content_is_binary (0 or 1 element)
    f_raw,      \* what raw returned (0 or 1 element)
    f_lines,    \* comment_strip: the lines not read yet
    f_buffered, \* comment_strip: buffered_output_line
    f_multi,    \* comment_strip: is_multiline_active
    f_out,      \* comment_strip: the bytes written to w
    f_cs,       \* what comment_stripped returned (0 or 1 element)
    f_raw_crlf  \* what raw returned for the same content written with CRLF

walkVars == <<queue, cur, idx, wpc, pending, rxOpen, received, live>>
allVars == <<a_pc, stack, locations, warnings, a_result>>
scanVars == <<fs_pc, fs_result, yielded, produced, tasks, w_err, chan, rxAlive, cancelled,
              u_pc, buf, uploaded, u_rcvd, batches, u_result, s_result>>
runVars == <<mode, export, scanDir, r_pc, r_result, calls, last_status, polls>>
vsiVars == <<scanVars, runVars>>
archiveVars == <<root, options, tmp, tmpExists, walkVars, allVars>>
expVars == <<e_pc, cleanups, p_result>>
listVars == <<l_archive, l_open, l_valid, l_i, l_consulted, l_result>>
fpVars == <<f_stream, f_pc, f_check, f_raw, f_lines, f_buffered, f_multi, f_out, f_cs,
           f_raw_crlf>>
restVars == <<expVars, listVars, fpVars>>
vars == <<archiveVars, vsiVars, restVars>>

\* The Expansion handed out by expand::all before anything is done with it.
ExpIdle ==
    /\ e_pc = "held"
    /\ cleanups = <<>>
    /\ p_result = <<>>

\* List::expand before it is called on its own.
ListIdle ==
    /\ l_archive = <<>>
    /\ l_open = "ok"
    /\ l_valid = FALSE
    /\ l_i = 0
    /\ l_consulted = <<>>
    /\ l_result = "none"

\* The fingerprint crate before fingerprint_stream is called on its own.
FpIdle ==
    /\ f_stream = <<>>
    /\ f_pc = "idle"
    /\ f_check = <<>>
    /\ f_raw = <<>>
    /\ f_lines = <<>>
    /\ f_buffered = <<>>
    /\ f_multi = FALSE
    /\ f_out = <<>>
    /\ f_cs = <<>>
    /\ f_raw_crlf = <<>>

RestIdle == ExpIdle /\ ListIdle /\ FpIdle

\* ------------------------------------------------------------ vsi: values
\* Result<usize>: st is "none" while the function runs, "ok" or "err" after.
NoResult == [st |-> "none", n |-> 0, err |-> ""]
Ok(n) == [st |-> "ok", n |-> n, err |-> ""]
Err(e) == [st |-> "err", n |-> 0, err |-> e]

\* The rayon threads that run the try_for_each closure.
Workers == {1, 2}

\* What WalkDir yields under the scan root after filter(is_file_or_err):
\* "ok" is a file that fingerprints, "err" an Err entry (a directory
\* iteration failure), "bad" a file whose fingerprint fails.  At most one
\* entry of a scan is not "ok".
ScanDirs ==
    { d \in UNION {[1..n -> {"ok", "err", "bad"}] : n \in 0..MaxFiles} :
        Cardinality({i \in DOMAIN d : d[i] # "ok"}) <= 1 }

\* The status strings the service answers with.
StatusStrings == {"NOT_STARTED", "DONE", "FAILED", "ANALYZING", "MATCHING"}

\* forensics::Status
Pending == [tag |-> "Pending", step |-> ""]
Finished == [tag |-> "Finished", step |-> ""]
Failed == [tag |-> "Failed", step |-> ""]
Informational(s) == [tag |-> "Informational", step |-> s]

\* Status::parse
Status_parse(input) ==
    CASE input = "NOT_STARTED" -> Pending
      [] input = "DONE"        -> Finished
      [] input = "FAILED"      -> Failed
      [] OTHER                 -> Informational(input)

\* A request made of the Client: st is "pending" while it is awaited, then
\* "ok" or "err"; "dropped" when its future was dropped before it returned.
Call(op, st) == [op |-> op, st |-> st]

\* The state of scan::artifacts before it is called.
ScanIdle ==
    /\ fs_pc = "idle"
    /\ fs_result = NoResult
    /\ yielded = 0
    /\ produced = 0
    /\ tasks = [t \in Workers |-> 0]
    /\ w_err = ""
    /\ chan = <<>>
    /\ rxAlive = FALSE
    /\ cancelled = FALSE
    /\ u_pc = "idle"
    /\ buf = <<>>
    /\ uploaded = 0
    /\ u_rcvd = <<>>
    /\ batches = <<>>
    /\ u_result = NoResult
    /\ s_result = NoResult

\* The vsi state before anything of it runs.
VsiIdle ==
    /\ mode = "run"
    /\ export = "ScanID"
    /\ scanDir = <<>>
    /\ r_pc = "idle"
    /\ r_result = NoResult
    /\ calls = <<>>
    /\ last_status = <<>>
    /\ polls = <<>>
    /\ ScanIdle

\* ------------------------------------------------------------------ paths
\* PathBuf::join for a relative child: a separator is put in between unless
\* the base is empty or already ends with one.
Join(base, child) ==
    IF base = <<>> \/ base[Len(base)] = "/"
    THEN base \o child
    ELSE base \o <<"/">> \o child

\* Mutant of logical_suffix: the postfix is forgotten.
logical_suffix_dropped(path) == path

\* walk_inner::logical_suffix: the postfix is pushed onto the path's text.
logical_suffix(path) == path \o options.archive_postfix

\* Option<PathBuf>
NoPath == [some |-> FALSE, path |-> <<>>]
SomePath(p) == [some |-> TRUE, path |-> p]

\* --------------------------------------------------------------- targets
WalkTarget_base(dir) ==
    [parent |-> NoPath, depth |-> 0, dir |-> dir, temp |-> FALSE]

WalkTarget_expanded(parent, dir, depth) ==
    [parent |-> SomePath(parent), depth |-> depth, dir |-> dir, temp |-> TRUE]

\* Mutant of WalkTarget_drop: the directory is left on disk.
WalkTarget_drop_leaves(exists, target) == exists

\* impl Drop for WalkTarget: remove_dir_all of a temp target's directory.
WalkTarget_drop(exists, target) ==
    IF target.temp THEN exists \ {target.dir} ELSE exists

\* What WalkDir::new(dir) yields.  A root that is a file yields that file
\* alone, with the root's own path; a symbolic link given as the root is
\* followed; a root that does not exist yields one error.
Listing(dir) ==
    IF dir # 0 THEN Tree(tmp[dir].tree)
    ELSE CASE root.kind \in {"dir", "symlink"} -> Tree(root.tree)
           [] root.kind = "file" -> << FileEnt(<<>>, root.valid, root.content) >>
           [] OTHER -> << ErrEnt(<<>>) >>

\* Names of the directories tempfile::tempdir makes, by creation order.
TmpNames == <<".tmpA", ".tmpB", ".tmpC", ".tmpD", ".tmpE", ".tmpF", ".tmpG", ".tmpH">>

\* The path of a directory on disk: the root as given, or a directory
\* under the system temp root.
DirPath(dir) ==
    IF dir = 0 THEN root.path ELSE <<"/", "tmp", "/", TmpNames[dir]>>

\* DirEntry::path: the walked directory's path joined with the entry's
\* position below it; the entry for the walked path itself has that path.
DirEntry_path(dir, rel) ==
    IF rel = <<>> THEN DirPath(dir) ELSE DirPath(dir) \o <<"/">> \o rel

\* Path::strip_prefix, used by try_make_relative: "error" when parent is
\* not a prefix of child.
strip_prefix(parent, child) ==
    IF child = parent THEN [ok |-> TRUE, path |-> <<>>]
    ELSE IF /\ Len(parent) < Len(child)
            /\ SubSeq(child, 1, Len(parent)) = parent
            /\ child[Len(parent) + 1] = "/"
         THEN [ok |-> TRUE, path |-> SubSeq(child, Len(parent) + 2, Len(child))]
         ELSE [ok |-> FALSE, path |-> <<>>]

\* ------------------------------------------------------------ strategies
Strategies == <<"libarchive", "deny">>

\* Mutant of can_expand: libarchive takes every file.
can_expand_any(strategy, path) ==
    IF strategy = "libarchive" THEN "Ok" ELSE "NotSupported"

\* Strategy::can_expand under Identification::MatchExtension.
can_expand(strategy, path) ==
    IF strategy = "libarchive" /\ ext_is_supported(path) THEN "Ok" ELSE "NotSupported"

\* Strategy::expand: "Ok" stands for a fresh temporary directory.
strategy_expand(strategy, valid) ==
    IF strategy = "libarchive"
    THEN (IF valid THEN "Ok" ELSE "Libarchive")
    ELSE "NotSupported"

\* List::expand: the first strategy that can expand the path does it.
RECURSIVE ListExpandFrom(_, _, _)
ListExpandFrom(i, archive, valid) ==
    IF i > Len(Strategies) THEN "NotSupported"
    ELSE IF can_expand(Strategies[i], archive) = "Ok"
         THEN strategy_expand(Strategies[i], valid)
         ELSE ListExpandFrom(i + 1, archive, valid)

List_expand(archive, valid) == ListExpandFrom(1, archive, valid)

\* ---------------------------------------------------------------- filter
IsPathPrefix(q, p) ==
    \/ q = p
    \/ /\ Len(q) < Len(p)
       /\ SubSeq(p, 1, Len(q)) = q
       /\ p[Len(q) + 1] = "/"

Filter_excludes(filter, path) ==
    \E q \in filter.exclude : IsPathPrefix(q, path)

Filter_allows(filter, path) ==
    \/ filter.include = {}
    \/ \E q \in filter.include : IsPathPrefix(q, path)

\* --------------------------------------------------------------- entries
\* Entry::direct: the logical path is the file's path relative to the
\* target's directory.  target is the Arc<WalkTarget> clone.
Entry_direct(target, dir, file) ==
    LET logical == strip_prefix(dir, file)
    IN  [ok |-> logical.ok,
         err |-> IF logical.ok THEN "none" ELSE "RenderPathRelative",
         logical |-> logical.path, concrete |-> file, target |-> target]

\* Entry::derived: the logical path is joined onto the target's parent.
Entry_derived(target, parent, dir, file) ==
    LET entry == Entry_direct(target, dir, file)
    IN  IF entry.ok /\ parent.some
        THEN [entry EXCEPT !.logical = Join(parent.path, entry.logical)]
        ELSE entry

\* An Err item of the stream; the Entry it replaces is dropped.
ErrItem(err, entry) == [entry EXCEPT !.ok = FALSE, !.err = err]

\* Mutant of StrongCount: an Entry holds no clone of its target.
StrongCount_walker_only(d, c, p, l, rcv) ==
    IF c # <<>> /\ c[1].dir = d THEN 1 ELSE 0

\* Mutant of StrongCount: the walker holds no clone of the target it walks.
StrongCount_entries_only(d, c, p, l, rcv) ==
    (IF p # <<>> /\ p[1].ok /\ p[1].target.dir = d THEN 1 ELSE 0)
    + Cardinality({i \in l : rcv[i].target.dir = d})

\* Number of Arc<WalkTarget> clones of the target whose directory is d:
\* the walker's own (c), the one in an item being sent (p) and those in
\* the entries the consumer keeps (indexes l into rcv).
StrongCount(d, c, p, l, rcv) ==
    (IF c # <<>> /\ c[1].dir = d THEN 1 ELSE 0)
    + (IF p # <<>> /\ p[1].ok /\ p[1].target.dir = d THEN 1 ELSE 0)
    + Cardinality({i \in l : rcv[i].target.dir = d})

\* Dropping one Arc clone: the WalkTarget is dropped with the last clone.
Arc_drop(exists, target, remaining) ==
    IF remaining = 0 THEN WalkTarget_drop(exists, target) ELSE exists

\* Mutant of DropQueue: the queued targets are forgotten, not dropped.
DropQueue_forgets(exists, q) == exists

RECURSIVE DropQueue(_, _)
DropQueue(exists, q) ==
    IF q = <<>> THEN exists
    ELSE DropQueue(WalkTarget_drop(exists, Head(q)), Tail(q))

\* ------------------------------------------------------- expand::walk
\* walk: the channel is made, the walker thread is spawned with the root
\* target queued, and the receiver is handed to the consumer.
Init ==
    /\ root \in Roots
    /\ options \in OptionSet
    /\ tmp = <<>>
    /\ tmpExists = {}
    /\ queue = <<WalkTarget_base(0)>>
    /\ cur = <<>>
    /\ idx = 0
    /\ wpc = "pop"
    /\ pending = <<>>
    /\ rxOpen = TRUE
    /\ received = <<>>
    /\ live = {}
    /\ a_pc = "idle"
    /\ stack = <<>>
    /\ locations = {}
    /\ warnings = <<>>
    /\ a_result = "none"
    /\ VsiIdle
    /\ RestIdle

\* Mutant of Enqueue: the new target goes to the front of the queue.
Enqueue_front(q, target) == <<target>> \o q

\* queue.push_back(target)
Enqueue(q, target) == Append(q, target)

\* Mutant of ExceedsDepth: the bound is off by one.
ExceedsDepth_off_by_one(new_depth, depth) == new_depth > depth + 1

\* The depth test of the process closure.
ExceedsDepth(new_depth, depth) == new_depth > depth

\* Mutant of ProcessResult: every strategy error counts as NotSupported.
ProcessResult_swallows_errors(entry, valid) ==
    IF options.recursion.enabled
    THEN (IF List_expand(entry.concrete, valid) = "Ok" THEN "Ok" ELSE "NotSupported")
    ELSE "Skip"

\* The process closure's outcome for a rendered entry: what the strategies
\* answer, "Skip" when recursion is disabled.
ProcessResult(entry, valid) ==
    IF options.recursion.enabled
    THEN List_expand(entry.concrete, valid)
    ELSE "Skip"

\* while let Some(target) = queue.pop_front(): the next target is wrapped in
\* an Arc and its directory walk starts; an empty queue ends the thread.
WalkerPop ==
    /\ wpc = "pop"
    /\ IF queue = <<>>
       THEN /\ wpc' = "exit"
            /\ UNCHANGED <<queue, cur, idx>>
       ELSE /\ cur' = <<Head(queue)>>
            /\ queue' = Tail(queue)
            /\ idx' = 1
            /\ wpc' = "iter"
    /\ UNCHANGED <<vsiVars, restVars, allVars, root, options, tmp, tmpExists, pending, rxOpen, received, live>>

\* One directory entry goes through the iterator chain: the is_file filter,
\* render, the exclude filter, process, the allow filter; what is left is
\* handed to tx.send.
WalkerEntry ==
    /\ wpc = "iter"
    /\ idx <= Len(Listing(cur[1].dir))
    /\ \E target \in {cur[1]} :
       \E de \in {Listing(target.dir)[idx]} :
       \E entry \in {Entry_derived(target, target.parent, DirPath(target.dir),
                                   DirEntry_path(target.dir, de.rel))} :
       LET reaches == /\ de.type = "file"
                      /\ entry.ok
                      /\ ~Filter_excludes(options.filter, entry.logical)
           res == ProcessResult(entry, de.valid)
           expands == reaches /\ res = "Ok"
           new_depth == target.depth + 1
           expanded == Len(tmp) + 1
           enqueue == expands /\ ~ExceedsDepth(new_depth, options.recursion.depth)
           item == IF res \in {"Ok", "NotSupported", "Skip"}
                   THEN entry ELSE ErrItem("Expand", entry)
           emits == reaches /\ (item.ok => Filter_allows(options.filter, entry.logical))
       IN  /\ idx' = idx + 1
           /\ tmp' = IF expands
                     THEN Append(tmp, [tree |-> de.content, src |-> entry.logical,
                                       walked |-> enqueue])
                     ELSE tmp
           /\ tmpExists' = IF expands THEN tmpExists \cup {expanded} ELSE tmpExists
           /\ queue' = IF enqueue
                       THEN Enqueue(queue, WalkTarget_expanded(
                                logical_suffix(entry.logical), expanded, new_depth))
                       ELSE queue
           /\ IF emits
              THEN wpc' = "send" /\ pending' = <<item>>
              ELSE wpc' = "iter" /\ pending' = <<>>
    /\ UNCHANGED <<vsiVars, restVars, allVars, root, options, cur, rxOpen, received, live>>

\* The directory walk of the target is exhausted: the loop body ends and the
\* walker's Arc is dropped.
WalkerFinishTarget ==
    /\ wpc = "iter"
    /\ idx > Len(Listing(cur[1].dir))
    /\ tmpExists' = Arc_drop(tmpExists, cur[1],
                             StrongCount(cur[1].dir, <<>>, <<>>, live, received))
    /\ cur' = <<>>
    /\ wpc' = "pop"
    /\ UNCHANGED <<vsiVars, restVars, allVars, root, options, tmp, queue, idx, pending, rxOpen, received, live>>

\* Mutant of SendErrorBreaks: the result of try_for_each is not looked at.
SendErrorBreaks_ignored == FALSE

\* if walk.is_err() { break; }
SendErrorBreaks == TRUE

\* tx.send fails because the receiver is gone: break.  The item, the Arc and
\* then the queue are dropped.
WalkerSendFail ==
    /\ wpc = "send"
    /\ ~rxOpen
    /\ LET dropped == Arc_drop(tmpExists, cur[1],
                               StrongCount(cur[1].dir, <<>>, <<>>, live, received))
       IN  IF SendErrorBreaks
           THEN /\ tmpExists' = DropQueue(dropped, queue)
                /\ queue' = <<>>
                /\ wpc' = "exit"
           ELSE /\ tmpExists' = dropped
                /\ queue' = queue
                /\ wpc' = "pop"
    /\ cur' = <<>>
    /\ pending' = <<>>
    /\ UNCHANGED <<vsiVars, restVars, allVars, root, options, tmp, idx, rxOpen, received, live>>

\* The consumer takes the next item from the iterator (the rendezvous
\* completes).  It keeps the Entry alive or drops it at once.
Receive(keep) ==
    /\ wpc = "send"
    /\ rxOpen
    /\ LET item == pending[1]
           n == Len(received) + 1
           rcv == Append(received, item)
           held == IF item.ok /\ keep THEN live \cup {n} ELSE live
       IN  /\ keep => (item.ok /\ Cardinality(live) < MaxHeld)
           /\ received' = rcv
           /\ live' = held
           /\ tmpExists' = IF item.ok /\ ~keep
                           THEN Arc_drop(tmpExists, item.target,
                                         StrongCount(item.target.dir, cur, <<>>, held, rcv))
                           ELSE tmpExists
    /\ pending' = <<>>
    /\ wpc' = "iter"
    /\ UNCHANGED <<vsiVars, restVars, allVars, root, options, tmp, queue, cur, idx, rxOpen>>

\* The consumer drops an Entry it kept.
DropEntry(i) ==
    /\ i \in live
    /\ live' = live \ {i}
    /\ tmpExists' = Arc_drop(tmpExists, received[i].target,
                             StrongCount(received[i].target.dir, cur, pending,
                                         live \ {i}, received))
    /\ UNCHANGED <<vsiVars, restVars, allVars, root, options, tmp, queue, cur, idx, wpc, pending, rxOpen, received>>

\* The consumer drops the iterator returned by walk.
DropReceiver ==
    /\ rxOpen
    /\ rxOpen' = FALSE
    /\ UNCHANGED <<vsiVars, restVars, allVars, root, options, tmp, tmpExists, queue, cur, idx, wpc, pending,
                   received, live>>

Next ==
    \/ WalkerPop
    \/ WalkerEntry
    \/ WalkerFinishTarget
    \/ WalkerSendFail
    \/ \E keep \in BOOLEAN : Receive(keep)
    \/ \E i \in live : DropEntry(i)
    \/ DropReceiver

Spec == Init /\ [][Next]_vars

\* -------------------------------------------------------- expand::all
\* Mutant of FilterIsDefault: only the include set is looked at.
FilterIsDefault_include_only(filter) == filter.include = DefaultFilter.include

\* options.filter != Filter::default(), negated.
FilterIsDefault(filter) == filter = DefaultFilter

Attempt(source, result, dest) == [source |-> source, result |-> result, dest |-> dest]

\* List::expand_layer from entry i of the directory's walk on.  acc holds
\* the attempts made so far and the disk; a walkdir error returns at once
\* (the ? operator) and the attempts made so far are dropped.
RECURSIVE ExpandLayerFrom(_, _, _)
ExpandLayerFrom(dir, i, acc) ==
    IF i > Len(Listing(dir)) THEN acc
    ELSE LET de == Listing(dir)[i]
             path == DirEntry_path(dir, de.rel)
             extracted == List_expand(path, de.valid)
             to == Len(acc.tmp) + 1
         IN  IF de.type = "err" THEN [acc EXCEPT !.ok = FALSE, !.attempts = <<>>]
             ELSE IF de.type # "file" \/ extracted = "NotSupported"
                  THEN ExpandLayerFrom(dir, i + 1, acc)
             ELSE IF extracted = "Ok"
                  THEN ExpandLayerFrom(dir, i + 1,
                         [acc EXCEPT
                            !.attempts = Append(@, Attempt(path, "Ok", to)),
                            !.tmp = Append(@, [tree |-> de.content, src |-> path,
                                               walked |-> FALSE]),
                            !.exists = @ \cup {to}])
                  ELSE ExpandLayerFrom(dir, i + 1,
                         [acc EXCEPT !.attempts = Append(@, Attempt(path, extracted, 0))])

expand_layer(dir) ==
    ExpandLayerFrom(dir, 1,
        [ok |-> TRUE, attempts |-> <<>>, tmp |-> tmp, exists |-> tmpExists])

\* stack.extend(extracted.into_iter().map(|p| (depth, p)))
AtDepth(depth, attempts) ==
    [k \in 1..Len(attempts) |-> [depth |-> depth, attempt |-> attempts[k]]]

\* BiHashMap::insert: pairs sharing the left or the right value are replaced.
BiMap_insert(map, source, dest) ==
    {p \in map : p.source # source /\ p.dest # dest}
        \cup {[source |-> source, dest |-> dest]}

\* Expansion::warn: the warning is pushed onto the source's list.
Expansion_warn(warns, source, warning) ==
    IF \E k \in 1..Len(warns) : warns[k].source = source
    THEN [k \in 1..Len(warns) |->
            IF warns[k].source = source
            THEN [warns[k] EXCEPT !.errors = Append(@, warning)]
            ELSE warns[k]]
    ELSE Append(warns, [source |-> source, errors |-> <<warning>>])

\* Expansion::record on the pair (locations, warnings).
Expansion_record(exp, attempt) ==
    IF attempt.result = "Ok"
    THEN [exp EXCEPT !.locations = BiMap_insert(@, attempt.source, attempt.dest)]
    ELSE [exp EXCEPT !.warnings = Expansion_warn(@, attempt.source, attempt.result)]

RECURSIVE Expansion_record_many(_, _)
Expansion_record_many(exp, attempts) ==
    IF attempts = <<>> THEN exp
    ELSE Expansion_record_many(Expansion_record(exp, Head(attempts)), Tail(attempts))

\* Expansion::cleanup as run by Drop: every destination is removed.
Expansion_drop(exists, locs) == exists \ {p.dest : p \in locs}

\* The state in which expand::all is called.
InitAll ==
    /\ root \in Roots
    /\ options \in OptionSet
    /\ tmp = <<>>
    /\ tmpExists = {}
    /\ queue = <<>>
    /\ cur = <<>>
    /\ idx = 0
    /\ wpc = "idle"
    /\ pending = <<>>
    /\ rxOpen = FALSE
    /\ received = <<>>
    /\ live = {}
    /\ a_pc = "start"
    /\ stack = <<>>
    /\ locations = {}
    /\ warnings = <<>>
    /\ a_result = "none"
    /\ VsiIdle
    /\ RestIdle

\* all, up to the loop: the filter check, the symlink check and the branch
\* on what the root is.
AllStart ==
    /\ a_pc = "start"
    /\ IF ~FilterIsDefault(options.filter)
       THEN /\ a_result' = "FiltersUnsupported"
            /\ a_pc' = "done"
            /\ UNCHANGED <<stack, tmp, tmpExists>>
       ELSE IF root.kind = "symlink"
       THEN /\ a_result' = "TargetSymlink"
            /\ a_pc' = "done"
            /\ UNCHANGED <<stack, tmp, tmpExists>>
       ELSE IF root.kind = "dir"
       THEN LET extracted == expand_layer(0)
            IN  /\ tmp' = extracted.tmp
                /\ tmpExists' = extracted.exists
                /\ IF extracted.ok
                   THEN /\ stack' = AtDepth(0, extracted.attempts)
                        /\ a_pc' = "loop"
                        /\ UNCHANGED a_result
                   ELSE /\ a_result' = "Expand"
                        /\ a_pc' = "done"
                        /\ UNCHANGED stack
       ELSE IF root.kind = "file"
       THEN LET extracted == List_expand(root.path, root.valid)
                to == Len(tmp) + 1
            IN  /\ tmp' = IF extracted = "Ok"
                          THEN Append(tmp, [tree |-> root.content, src |-> root.path,
                                            walked |-> FALSE])
                          ELSE tmp
                /\ tmpExists' = IF extracted = "Ok" THEN tmpExists \cup {to} ELSE tmpExists
                /\ stack' = <<[depth |-> 0,
                               attempt |-> Attempt(root.path, extracted,
                                                   IF extracted = "Ok" THEN to ELSE 0)]>>
                /\ a_pc' = "loop"
                /\ UNCHANGED a_result
       ELSE /\ a_result' = "Walkable"
            /\ a_pc' = "done"
            /\ UNCHANGED <<stack, tmp, tmpExists>>
    /\ UNCHANGED <<vsiVars, restVars, walkVars, root, options, locations, warnings>>

\* One turn of the loop under Recursion::Enabled: the front attempt is
\* warned about at the depth bound, else recorded and, when it expanded,
\* its directory's layer of archives is expanded and queued.  A failing
\* expand_layer returns the error; the Expansion is dropped.
AllRecurse ==
    /\ a_pc = "loop"
    /\ options.recursion.enabled
    /\ stack # <<>>
    /\ LET depth == Head(stack).depth
           attempt == Head(stack).attempt
           exp == Expansion_record([locations |-> locations, warnings |-> warnings],
                                   attempt)
           next == expand_layer(attempt.dest)
       IN  IF depth >= options.recursion.depth
           THEN /\ warnings' = Expansion_warn(warnings, attempt.source, "RecursionLimit")
                /\ stack' = Tail(stack)
                /\ UNCHANGED <<locations, tmp, tmpExists, a_pc, a_result>>
           ELSE IF attempt.result # "Ok"
           THEN /\ warnings' = exp.warnings
                /\ locations' = exp.locations
                /\ stack' = Tail(stack)
                /\ UNCHANGED <<tmp, tmpExists, a_pc, a_result>>
           ELSE IF next.ok
           THEN /\ warnings' = exp.warnings
                /\ locations' = exp.locations
                /\ tmp' = next.tmp
                /\ tmpExists' = next.exists
                /\ stack' = Tail(stack) \o AtDepth(depth + 1, next.attempts)
                /\ UNCHANGED <<a_pc, a_result>>
           ELSE /\ a_result' = "Expand"
                /\ a_pc' = "done"
                /\ tmp' = next.tmp
                /\ tmpExists' = Expansion_drop(next.exists, exp.locations)
                /\ locations' = {}
                /\ warnings' = <<>>
                /\ stack' = <<>>
    /\ UNCHANGED <<vsiVars, restVars, walkVars, root, options>>

\* Recursion::Disabled: every attempt of the first layer is recorded.
AllDisabled ==
    /\ a_pc = "loop"
    /\ ~options.recursion.enabled
    /\ stack # <<>>
    /\ LET exp == Expansion_record_many(
                    [locations |-> locations, warnings |-> warnings],
                    [k \in 1..Len(stack) |-> stack[k].attempt])
       IN  /\ locations' = exp.locations
           /\ warnings' = exp.warnings
    /\ stack' = <<>>
    /\ UNCHANGED <<vsiVars, restVars, walkVars, root, options, tmp, tmpExists, a_pc, a_result>>

\* Ok(expansion)
AllReturn ==
    /\ a_pc = "loop"
    /\ stack = <<>>
    /\ a_result' = "Ok"
    /\ a_pc' = "done"
    /\ UNCHANGED <<vsiVars, restVars, walkVars, root, options, tmp, tmpExists, stack, locations, warnings>>

NextAll ==
    \/ AllStart
    \/ AllRecurse
    \/ AllDisabled
    \/ AllReturn

SpecAll == InitAll /\ [][NextAll]_vars

\* ================================================================== vsi
\* The archive crate's state while vsi runs: this revision of fs_worker
\* walks Options.root with WalkDir only.
ArchiveIdle ==
    /\ root = RootRec("dir", <<"proj">>, "plain", FALSE, "none")
    /\ options = [recursion |-> [enabled |-> FALSE, depth |-> 0],
                  filter |-> DefaultFilter,
                  archive_postfix |-> <<DEFAULT_ARCHIVE_POSTFIX>>]
    /\ tmp = <<>>
    /\ tmpExists = {}
    /\ queue = <<>>
    /\ cur = <<>>
    /\ idx = 0
    /\ wpc = "idle"
    /\ pending = <<>>
    /\ rxOpen = FALSE
    /\ received = <<>>
    /\ live = {}
    /\ a_pc = "idle"
    /\ stack = <<>>
    /\ locations = {}
    /\ warnings = <<>>
    /\ a_result = "none"

\* The state in which vsi::run (or the binary's main_full) is entered.
InitRun ==
    /\ ArchiveIdle
    /\ RestIdle
    /\ mode \in {"run", "main_full"}
    /\ export \in {"ScanID", "Locators"}
    /\ scanDir \in ScanDirs
    /\ r_pc = "create"
    /\ r_result = NoResult
    /\ calls = <<>>
    /\ last_status = <<>>
    /\ polls = <<>>
    /\ ScanIdle

\* Mutant of Try: the error is noted but run goes on.
Try_goes_on(ok, next) == next

\* The `?` after a request of run: where run goes next.
Try(ok, next) == IF ok THEN next ELSE "done"

\* client.create_scan().await.context("create scan")?
CreateScan(ok) ==
    /\ r_pc = "create"
    /\ calls' = Append(calls, Call("create_scan", IF ok THEN "ok" ELSE "err"))
    /\ r_pc' = Try(ok, "artifacts")
    /\ r_result' = IF ok THEN r_result ELSE Err("create scan")
    /\ UNCHANGED <<archiveVars, restVars, scanVars, mode, export, scanDir, last_status, polls>>

\* scan::artifacts up to its try_join!: the channel is made, the uploader
\* starts receiving and walk_local_fs spawns the blocking fs_worker.
ArtifactsStart ==
    /\ r_pc = "artifacts"
    /\ r_pc' = "scan"
    /\ rxAlive' = TRUE
    /\ u_pc' = "recv"
    /\ fs_pc' = "run"
    /\ UNCHANGED <<archiveVars, restVars, fs_result, yielded, produced, tasks, w_err, chan, cancelled,
                   buf, uploaded, u_rcvd, batches, u_result, s_result,
                   mode, export, scanDir, r_result, calls, last_status, polls>>

\* The first error try_for_each meets is the one it keeps.
FirstError(e) == IF w_err = "" THEN e ELSE w_err

\* ---------------------------------------------------------- fs_worker
\* One run of the try_for_each closure up to blocking_send: the serial
\* iterator yields the next entry (inspect counts it), the token is checked,
\* the file is fingerprinted.  rayon stops handing out entries "as soon as
\* possible" after an error, so a thread may still start one.
TaskStart(t) ==
    /\ fs_pc = "run"
    /\ tasks[t] = 0
    /\ yielded < Len(scanDir)
    /\ yielded' = yielded + 1
    /\ produced' = produced + 1
    /\ IF cancelled
       THEN w_err' = FirstError("cancellation requested") /\ UNCHANGED tasks
       ELSE IF scanDir[yielded + 1] = "err"
            THEN w_err' = FirstError("iterate contents") /\ UNCHANGED tasks
       ELSE IF scanDir[yielded + 1] = "bad"
            THEN w_err' = FirstError("fingerprint") /\ UNCHANGED tasks
            ELSE tasks' = [tasks EXCEPT ![t] = yielded + 1] /\ UNCHANGED w_err
    /\ UNCHANGED <<archiveVars, restVars, runVars, fs_pc, fs_result, chan, rxAlive, cancelled,
                   u_pc, buf, uploaded, u_rcvd, batches, u_result, s_result>>

\* Mutant of HasCapacity: the channel takes any number of artifacts.
HasCapacity_unbounded(c) == TRUE

\* channel(ARTIFACT_BUFFER_LIMIT): a send needs a free slot.
HasCapacity(c) == Len(c) < ARTIFACT_BUFFER_LIMIT

\* out.blocking_send(artifact).context("send entry")?: fails once the
\* receiver is gone, blocks while the channel holds ARTIFACT_BUFFER_LIMIT.
TaskSend(t) ==
    /\ fs_pc = "run"
    /\ tasks[t] # 0
    /\ IF ~rxAlive
       THEN w_err' = FirstError("send entry") /\ UNCHANGED chan
       ELSE /\ HasCapacity(chan)
            /\ chan' = Append(chan, tasks[t])
            /\ UNCHANGED w_err
    /\ tasks' = [tasks EXCEPT ![t] = 0]
    /\ UNCHANGED <<archiveVars, restVars, runVars, fs_pc, fs_result, yielded, produced, rxAlive,
                   cancelled, u_pc, buf, uploaded, u_rcvd, batches, u_result, s_result>>

\* try_for_each is over: fs_worker returns the error or Ok(produced), and
\* the Sender it owns is dropped.
WorkerReturn ==
    /\ fs_pc = "run"
    /\ \A t \in Workers : tasks[t] = 0
    /\ w_err # "" \/ yielded = Len(scanDir)
    /\ fs_pc' = "exit"
    /\ fs_result' = IF w_err # "" THEN Err(w_err) ELSE Ok(produced)
    /\ UNCHANGED <<archiveVars, restVars, runVars, yielded, produced, tasks, w_err, chan, rxAlive,
                   cancelled, u_pc, buf, uploaded, u_rcvd, batches, u_result, s_result>>

\* -------------------------------------------------------------- upload
\* buf.len() == ARTIFACT_BUFFER_LIMIT
BufferFull(b) == Len(b) = ARTIFACT_BUFFER_LIMIT

\* One turn of the while-let loop: recv yields an artifact, it is buffered
\* and counted, and a full buffer is handed to the sink.
UploadRecv ==
    /\ u_pc = "recv"
    /\ chan # <<>>
    /\ chan' = Tail(chan)
    /\ uploaded' = uploaded + 1
    /\ u_rcvd' = Append(u_rcvd, Head(chan))
    /\ LET b == Append(buf, Head(chan)) IN
       IF BufferFull(b)
       THEN /\ batches' = Append(batches, b)
            /\ calls' = Append(calls, Call("append", "pending"))
            /\ buf' = <<>>
            /\ u_pc' = "append"
       ELSE /\ buf' = b
            /\ UNCHANGED <<batches, calls, u_pc>>
    /\ UNCHANGED <<archiveVars, restVars, fs_pc, fs_result, yielded, produced, tasks, w_err, rxAlive,
                   cancelled, u_result, s_result,
                   mode, export, scanDir, r_pc, r_result, last_status, polls>>

\* Mutant of NeedsFinalFlush: the remainder is never sent.
NeedsFinalFlush_never(b) == FALSE

\* Mutant of NeedsFinalFlush: the final chunk is sent whatever it holds.
NeedsFinalFlush_always(b) == TRUE

\* if !buf.is_empty()
NeedsFinalFlush(b) == b # <<>>

\* Mutant of SenderDropped: a clone of the Sender outlives the worker.
SenderDropped_kept == FALSE

\* The Sender was moved into the fs_worker closure: it is dropped when the
\* worker returns, and there is no other.
SenderDropped == fs_pc = "exit"

\* recv yields None (the channel is empty and its Sender dropped): what is
\* left in the buffer goes out as the final chunk, an empty buffer does not.
UploadClosed ==
    /\ u_pc = "recv"
    /\ chan = <<>>
    /\ SenderDropped
    /\ IF NeedsFinalFlush(buf)
       THEN /\ batches' = Append(batches, buf)
            /\ calls' = Append(calls, Call("append", "pending"))
            /\ buf' = <<>>
            /\ u_pc' = "final"
            /\ UNCHANGED <<u_result, rxAlive>>
       ELSE /\ u_pc' = "done"
            /\ u_result' = Ok(uploaded)
            /\ rxAlive' = FALSE
            /\ UNCHANGED <<batches, calls, buf>>
    /\ UNCHANGED <<archiveVars, restVars, fs_pc, fs_result, yielded, produced, tasks, w_err, chan,
                   cancelled, uploaded, u_rcvd, s_result,
                   mode, export, scanDir, r_pc, r_result, last_status, polls>>

\* The outcome of the request that was last made.
Settle(cs, st) == [cs EXCEPT ![Len(cs)] = Call(cs[Len(cs)].op, st)]

\* client.append_scan(id, buf).await returns: Ok resumes the loop (or ends
\* upload after the final chunk), Err ends upload through `?`, which drops
\* the Receiver and with it what the channel still holds.
AppendReturn(ok) ==
    /\ u_pc \in {"append", "final"}
    /\ calls' = Settle(calls, IF ok THEN "ok" ELSE "err")
    /\ IF ok
       THEN IF u_pc = "append"
            THEN u_pc' = "recv" /\ UNCHANGED <<u_result, rxAlive, chan>>
            ELSE /\ u_pc' = "done"
                 /\ u_result' = Ok(uploaded)
                 /\ rxAlive' = FALSE
                 /\ UNCHANGED chan
       ELSE /\ u_pc' = "done"
            /\ u_result' = Err(IF u_pc = "append" THEN "upload buffer" ELSE "upload final buffer")
            /\ rxAlive' = FALSE
            /\ chan' = <<>>
    /\ UNCHANGED <<archiveVars, restVars, fs_pc, fs_result, yielded, produced, tasks, w_err,
                   cancelled, buf, uploaded, u_rcvd, batches, s_result,
                   mode, export, scanDir, r_pc, r_result, last_status, polls>>

\* ------------------------------------------------------ scan::artifacts
\* ensure!(uploaded == produced, ...); Ok(uploaded)
EnsureCounts(up, pr) == IF up = pr THEN Ok(up) ELSE Err("mismatch")

\* Mutant of TryJoin: the walker's result is not looked at.
TryJoin_ignores_walker(u, w) == IF u.st = "err" THEN u ELSE Ok(u.n)

\* try_join!(uploader, walker).and_then(..): the uploader is polled first,
\* the first Err is the result; two Ok values go through the ensure.
TryJoin(u, w) ==
    IF u.st = "err" THEN u
    ELSE IF w.st = "err" THEN w
    ELSE EnsureCounts(u.n, w.n)

\* try_join! is ready: either future failed or both are done.
TryJoinReady(u, w) == u.st = "err" \/ w.st = "err" \/ (u.st = "ok" /\ w.st = "ok")

\* Mutant of Context_drop: dropping the Context leaves the token alone.
Context_drop_forgets(token) == token

\* impl Drop for Context: self.token.cancel()
Context_drop(token) == TRUE

\* scan::artifacts returns.  Its locals are dropped: an uploader that is
\* still running is dropped with its Receiver, its buffer and the request
\* it awaits; dropping the walk Context cancels the token.  The caller
\* (run or main_full) goes on, or returns the error through `?`.
ArtifactsReturn ==
    /\ r_pc = "scan"
    /\ TryJoinReady(u_result, fs_result)
    /\ s_result' = TryJoin(u_result, fs_result)
    /\ cancelled' = Context_drop(cancelled)
    /\ IF u_pc \in {"recv", "append", "final"}
       THEN /\ u_pc' = "dropped"
            /\ rxAlive' = FALSE
            /\ chan' = <<>>
            /\ buf' = <<>>
            /\ calls' = IF u_pc = "recv" THEN calls ELSE Settle(calls, "dropped")
       ELSE UNCHANGED <<u_pc, rxAlive, chan, buf, calls>>
    /\ IF s_result'.st = "ok"
       THEN r_pc' = "scanned" /\ UNCHANGED r_result
       ELSE r_pc' = "done" /\ r_result' = Err("scan artifacts")
    /\ UNCHANGED <<archiveVars, restVars, fs_pc, fs_result, yielded, produced, tasks, w_err,
                   uploaded, u_rcvd, batches, u_result,
                   mode, export, scanDir, last_status, polls>>

\* -------------------------------------------------------------- vsi::run
\* client.complete_scan(&id).await.context("mark scan complete")?
CompleteScan(ok) ==
    /\ r_pc = "scanned"
    /\ mode = "run"
    /\ calls' = Append(calls, Call("complete_scan", IF ok THEN "ok" ELSE "err"))
    /\ r_pc' = Try(ok, "wait")
    /\ r_result' = IF ok THEN r_result ELSE Err("mark scan complete")
    /\ UNCHANGED <<archiveVars, restVars, scanVars, mode, export, scanDir, last_status, polls>>

\* main_full goes from scan::artifacts straight to waiting for forensics.
MainFullWait ==
    /\ r_pc = "scanned"
    /\ mode = "main_full"
    /\ r_pc' = "wait"
    /\ UNCHANGED <<archiveVars, restVars, scanVars, mode, export, scanDir, r_result, calls,
                   last_status, polls>>

\* What a forensics_status request comes back with.
PollAnswers ==
    {[ok |-> TRUE, raw |-> s] : s \in StatusStrings} \cup {[ok |-> FALSE, raw |-> ""]}

\* One iteration of wait_forensics' loop, as a record of what it did.
PollRec(ans, logged, slept) ==
    [ok |-> ans.ok, raw |-> ans.raw, logged |-> logged, slept |-> slept]

\* Mutant of SameAsLast: only the variant is compared.
SameAsLast_by_tag(last, status) == last # <<>> /\ last[1].tag = status.tag

\* if let Some(last_status) = &last_status { if last_status == &status ..
SameAsLast(last, status) == last = <<status>>

\* Mutant of IsFinished: an informational status ends the wait as well.
IsFinished_any_other(status) == status.tag \in {"Finished", "Informational"}

\* The match arm that returns Ok(()).
IsFinished(status) == status = Finished

\* One iteration of the loop of wait_forensics: the request, then either
\* the sleep (same status as last time) or the match on the status.
Poll(ans) ==
    /\ r_pc = "wait"
    /\ Len(polls) < MaxPolls
    /\ calls' = Append(calls, Call("forensics_status", IF ans.ok THEN "ok" ELSE "err"))
    /\ IF ~ans.ok
       THEN /\ polls' = Append(polls, PollRec(ans, FALSE, FALSE))
            /\ r_pc' = "done"
            /\ r_result' = Err("wait for forensics")
            /\ UNCHANGED last_status
       ELSE LET status == Status_parse(ans.raw) IN
            IF SameAsLast(last_status, status)
            THEN /\ polls' = Append(polls, PollRec(ans, FALSE, TRUE))
                 /\ UNCHANGED <<r_pc, r_result, last_status>>
            ELSE IF IsFinished(status)
            THEN /\ polls' = Append(polls, PollRec(ans, TRUE, FALSE))
                 /\ r_pc' = "export"
                 /\ UNCHANGED <<r_result, last_status>>
            ELSE IF status = Failed
            THEN /\ polls' = Append(polls, PollRec(ans, FALSE, FALSE))
                 /\ r_pc' = "done"
                 /\ r_result' = Err("wait for forensics")
                 /\ UNCHANGED last_status
            ELSE /\ polls' = Append(polls, PollRec(ans, TRUE, FALSE))
                 /\ last_status' = <<status>>
                 /\ UNCHANGED <<r_pc, r_result>>
    /\ UNCHANGED <<archiveVars, restVars, scanVars, mode, export, scanDir>>

\* config::Export::ScanID => Ok(format!(..))
ExportScanID ==
    /\ r_pc = "export"
    /\ export = "ScanID"
    /\ r_pc' = "done"
    /\ r_result' = Ok(0)
    /\ UNCHANGED <<archiveVars, restVars, scanVars, mode, export, scanDir, calls, last_status, polls>>

\* config::Export::Locators => client.download_forensics(&id).await...
Download(ok) ==
    /\ r_pc = "export"
    /\ export = "Locators"
    /\ calls' = Append(calls, Call("download_forensics", IF ok THEN "ok" ELSE "err"))
    /\ r_pc' = "done"
    /\ r_result' = IF ok THEN Ok(0) ELSE Err("download forensics")
    /\ UNCHANGED <<archiveVars, restVars, scanVars, mode, export, scanDir, last_status, polls>>

\* The steps of the fs_worker thread.
WorkerStep == (\E t \in Workers : TaskStart(t) \/ TaskSend(t)) \/ WorkerReturn

NextRun ==
    \/ \E ok \in BOOLEAN : CreateScan(ok)
    \/ ArtifactsStart
    \/ \E t \in Workers : TaskStart(t)
    \/ \E t \in Workers : TaskSend(t)
    \/ WorkerReturn
    \/ UploadRecv
    \/ UploadClosed
    \/ \E ok \in BOOLEAN : AppendReturn(ok)
    \/ ArtifactsReturn
    \/ \E ok \in BOOLEAN : CompleteScan(ok)
    \/ MainFullWait
    \/ \E ans \in PollAnswers : Poll(ans)
    \/ ExportScanID
    \/ \E ok \in BOOLEAN : Download(ok)

SpecRun == InitRun /\ [][NextRun]_vars

\* fs_worker runs on a thread of its own (spawn_blocking) and the future of
\* scan::artifacts is polled whenever one of its parts is ready.
SpecRunFair == SpecRun /\ WF_vars(WorkerStep) /\ WF_vars(ArtifactsReturn)

\* As SpecRunFair, and the uploader future is polled whenever its channel
\* is ready and every append request returns, with either outcome.
SpecPipelineFair ==
    /\ SpecRunFair
    /\ WF_vars(UploadRecv \/ UploadClosed)
    /\ WF_vars(\E ok \in BOOLEAN : AppendReturn(ok))

\* ============================================== the Expansion after all
\* What the caller of expand::all does with the Expansion it got back:
\* cleanup any number of times, then persist it or let it drop.
MaxCleanups == 2

Destinations(locs) == {p.dest : p \in locs}

\* Expansion::cleanup on a locations map, `failing` being the destinations
\* whose fs::remove_dir_all returns an error: nothing is done on an empty
\* map; otherwise every right value is removed, the map is replaced by the
\* default one and the Error::Cleanup values are returned.
Expansion_cleanup_keeps_failed(locs, failing) ==
    IF locs = {}
    THEN [attempted |-> {}, locations |-> locs, errors |-> {}]
    ELSE [attempted |-> Destinations(locs),
          locations |-> {p \in locs : p.dest \in failing},
          errors |-> Destinations(locs) \cap failing]

Expansion_cleanup(locs, failing) ==
    IF locs = {}
    THEN [attempted |-> {}, locations |-> locs, errors |-> {}]
    ELSE [attempted |-> Destinations(locs),
          locations |-> {},
          errors |-> Destinations(locs) \cap failing]

\* One run of cleanup, by a call or by Drop, with its entry in the log.
RunCleanup(by, failing) ==
    LET c == Expansion_cleanup(locations, failing)
    IN  /\ locations' = c.locations
        /\ tmpExists' = tmpExists \ (c.attempted \ c.errors)
        /\ cleanups' = Append(cleanups,
               [by |-> by, held |-> locations, attempted |-> c.attempted,
                result |-> IF c.errors = {} THEN [ok |-> TRUE, errors |-> {}]
                           ELSE [ok |-> FALSE, errors |-> c.errors]])

ExpansionHeld == a_pc = "done" /\ a_result = "Ok" /\ e_pc = "held"

\* expansion.cleanup()
Cleanup ==
    /\ ExpansionHeld
    /\ Len(SelectSeq(cleanups, LAMBDA c : c.by = "call")) < MaxCleanups
    /\ \E failing \in SUBSET Destinations(locations) : RunCleanup("call", failing)
    /\ UNCHANGED <<vsiVars, listVars, fpVars, walkVars, root, options, tmp, a_pc, stack, warnings, a_result,
                   e_pc, p_result>>

\* drop(expansion): Drop runs cleanup and discards what it returns.
ExpansionDrop ==
    /\ ExpansionHeld
    /\ \E failing \in SUBSET Destinations(locations) : RunCleanup("drop", failing)
    /\ e_pc' = "dropped"
    /\ UNCHANGED <<vsiVars, listVars, fpVars, walkVars, root, options, tmp, a_pc, stack, warnings, a_result,
                   p_result>>

\* Expansion::persist on (locations, warnings): both are taken out of the
\* value, which is wrapped in ManuallyDrop so that Drop never runs on it.
Expansion_persist_clones(locs, warns) ==
    [returned |-> [locations |-> locs, warnings |-> warns],
     left |-> [locations |-> locs, warnings |-> warns],
     dropped |-> TRUE]

Expansion_persist(locs, warns) ==
    [returned |-> [locations |-> locs, warnings |-> warns],
     left |-> [locations |-> {}, warnings |-> <<>>],
     dropped |-> FALSE]

\* expansion.persist()
Persist ==
    /\ ExpansionHeld
    /\ LET p == Expansion_persist(locations, warnings)
       IN  /\ p_result' = <<p.returned>>
           /\ warnings' = p.left.warnings
           /\ IF p.dropped
              THEN \E failing \in SUBSET Destinations(p.left.locations) :
                      LET c == Expansion_cleanup(p.left.locations, failing)
                      IN  /\ locations' = c.locations
                          /\ tmpExists' = tmpExists \ (c.attempted \ c.errors)
                          /\ cleanups' = Append(cleanups,
                                 [by |-> "drop", held |-> p.left.locations,
                                  attempted |-> c.attempted,
                                  result |-> [ok |-> c.errors = {}, errors |-> c.errors]])
              ELSE /\ locations' = p.left.locations
                   /\ UNCHANGED <<tmpExists, cleanups>>
    /\ e_pc' = "persisted"
    /\ UNCHANGED <<vsiVars, listVars, fpVars, walkVars, root, options, tmp, a_pc, stack, a_result>>

NextExp ==
    \/ NextAll
    \/ Cleanup
    \/ ExpansionDrop
    \/ Persist

SpecExp == InitAll /\ [][NextExp]_vars

\* ========================================================== List::expand
\* List::expand called on one path, one loop iteration at a time.
MaxExts == 2

Stems == {"foo", "FOO", "not-a-tar"}
ExtTokens == {".zip", ".ZIP", ".tar", ".gz", ".xz", ".bz2", ".rpm", ".txt"}

\* The file names a call may be given: a stem and up to MaxExts extensions.
FileNames ==
    {<<stem>> \o exts : stem \in Stems,
                        exts \in UNION {[1..n -> ExtTokens] : n \in 0..MaxExts}}

ArchivePaths == FileNames \cup {<<"d", "/">> \o name : name \in FileNames}

InitList ==
    /\ ArchiveIdle
    /\ VsiIdle
    /\ ExpIdle
    /\ FpIdle
    /\ l_archive \in ArchivePaths
    /\ l_open \in {"ok", "io"}
    /\ l_valid \in BOOLEAN
    /\ l_i = 0
    /\ l_consulted = <<>>
    /\ l_result = "none"

\* Strategy::can_expand with the outcome of File::open: libarchive opens a
\* path whose extension is supported and maps a failure to Error::IO.
Strategy_can_expand(strategy, path, open) ==
    IF can_expand(strategy, path) = "Ok" /\ open # "ok"
    THEN "IO"
    ELSE can_expand(strategy, path)

\* The match arm Err(Error::NotSupported) => continue.
Continues_on_any_error(answer) == answer # "Ok"

Continues(answer) == answer = "NotSupported"

\* strategies.expand(archive)
ListCall ==
    /\ l_i = 0
    /\ l_i' = 1
    /\ UNCHANGED <<archiveVars, vsiVars, expVars, fpVars, l_archive, l_open, l_valid, l_consulted,
                   l_result>>

\* One iteration of the loop over self.strategies.
ListConsult ==
    /\ l_i \in 1..Len(Strategies)
    /\ l_result = "none"
    /\ LET strategy == Strategies[l_i]
           answer == Strategy_can_expand(strategy, l_archive, l_open)
       IN  /\ l_consulted' = Append(l_consulted, [strategy |-> strategy, answer |-> answer])
           /\ IF answer = "Ok"
              THEN l_result' = strategy_expand(strategy, l_valid) /\ UNCHANGED l_i
              ELSE IF Continues(answer)
              THEN l_i' = l_i + 1 /\ UNCHANGED l_result
              ELSE l_result' = answer /\ UNCHANGED l_i
    /\ UNCHANGED <<archiveVars, vsiVars, expVars, fpVars, l_archive, l_open, l_valid>>

\* The loop ran out of strategies: Err(Error::NotSupported).
ListExhausted ==
    /\ l_i > Len(Strategies)
    /\ l_result = "none"
    /\ l_result' = "NotSupported"
    /\ UNCHANGED <<archiveVars, vsiVars, expVars, fpVars, l_archive, l_open, l_valid, l_i, l_consulted>>

NextList ==
    \/ ListCall
    \/ ListConsult
    \/ ListExhausted

SpecList == InitList /\ [][NextList]_vars

\* ========================================================== fingerprint
\* fingerprint_stream on one stream: raw, then comment_stripped, one line of
\* comment_strip at a time.  Bytes are named; a digest is represented by the
\* bytes fed to the hasher.
MaxLen == 5
BinaryCheckBytes == 2

SP == " "
LF == "LF"
CR == "CR"
NUL == "NUL"
Bytes == {"a", SP, "/", "*", LF, CR, NUL}

Streams == UNION {[1..n -> Bytes] : n \in 0..MaxLen}

\* stream.take(n).read_to_end(&mut buf)
Take(stream, n) == SubSeq(stream, 1, IF n < Len(stream) THEN n ELSE Len(stream))

\* Mutant of content_is_binary: the whole stream is inspected.
content_is_binary_whole(stream) ==
    [read |-> stream, is_binary |-> \E i \in 1..Len(stream) : stream[i] = NUL]

\* content_is_binary: the BinaryCheck of the first bytes of the stream.
content_is_binary(stream) ==
    LET head == Take(stream, BinaryCheckBytes)
    IN  [read |-> head, is_binary |-> \E i \in 1..Len(head) : head[i] = NUL]

\* Cursor::new(read).chain(stream): the bytes read by the check, then what
\* is left of the stream.
Chain(check, stream) == check.read \o SubSeq(stream, Len(check.read) + 1, Len(stream))

\* ConvertCRLFToLF: every CR LF pair becomes one LF.
RECURSIVE crlf_to_lf(_)
crlf_to_lf(bytes) ==
    IF bytes = <<>> THEN <<>>
    ELSE IF Len(bytes) >= 2 /\ bytes[1] = CR /\ bytes[2] = LF
         THEN <<LF>> \o crlf_to_lf(SubSeq(bytes, 3, Len(bytes)))
         ELSE <<Head(bytes)>> \o crlf_to_lf(Tail(bytes))

\* hash_binary: the bytes are copied into the hasher as they are.
hash_binary(stream) == stream

\* Mutant of hash_text: no conversion of line endings.
hash_text_unconverted(stream) == stream

\* hash_text: the bytes go through crlf_to_lf into the hasher.
hash_text(stream) == crlf_to_lf(stream)

\* raw
raw(stream) ==
    LET check == content_is_binary(stream)
    IN  IF check.is_binary
        THEN hash_binary(Chain(check, stream))
        ELSE hash_text(Chain(check, stream))

\* BufRead::lines: the stream is cut after each LF; the LF is removed from
\* the line, and a CR right before it as well.
FirstLF(bytes) ==
    IF \E i \in 1..Len(bytes) : bytes[i] = LF
    THEN CHOOSE i \in 1..Len(bytes) : bytes[i] = LF /\ \A j \in 1..(i - 1) : bytes[j] # LF
    ELSE 0

RECURSIVE Lines(_)
Lines(bytes) ==
    IF bytes = <<>> THEN <<>>
    ELSE IF FirstLF(bytes) = 0 THEN <<bytes>>
    ELSE LET k == FirstLF(bytes)
             line == IF k >= 2 /\ bytes[k - 1] = CR
                     THEN SubSeq(bytes, 1, k - 2)
                     ELSE SubSeq(bytes, 1, k - 1)
         IN  <<line>> \o Lines(SubSeq(bytes, k + 1, Len(bytes)))

\* str::find of a two-byte pattern: the first index, 0 for None.
Find(line, b1, b2) ==
    IF \E i \in 1..(Len(line) - 1) : line[i] = b1 /\ line[i + 1] = b2
    THEN CHOOSE i \in 1..(Len(line) - 1) :
            /\ line[i] = b1 /\ line[i + 1] = b2
            /\ \A j \in 1..(i - 1) : ~(line[j] = b1 /\ line[j + 1] = b2)
    ELSE 0

\* Mutant of clean_line: what follows the closing "*/" is dropped.
RECURSIVE clean_line_drops_tail(_, _)
clean_line_drops_tail(line, is_multiline_active) ==
    IF is_multiline_active
    THEN IF Find(line, "*", "/") # 0
         THEN [text |-> <<>>, multi |-> FALSE]
         ELSE [text |-> <<>>, multi |-> TRUE]
    ELSE IF Find(line, "/", "*") # 0
    THEN LET start == Find(line, "/", "*")
             after == clean_line_drops_tail(SubSeq(line, start + 2, Len(line)), TRUE)
         IN  [text |-> SubSeq(line, 1, start - 1) \o after.text, multi |-> after.multi]
    ELSE IF Find(line, "/", "/") # 0
    THEN [text |-> SubSeq(line, 1, Find(line, "/", "/") - 1), multi |-> FALSE]
    ELSE [text |-> line, multi |-> FALSE]

\* clean_line
RECURSIVE clean_line(_, _)
clean_line(line, is_multiline_active) ==
    IF is_multiline_active
    THEN IF Find(line, "*", "/") # 0
         THEN clean_line(SubSeq(line, Find(line, "*", "/") + 2, Len(line)), FALSE)
         ELSE [text |-> <<>>, multi |-> TRUE]
    ELSE IF Find(line, "/", "*") # 0
    THEN LET start == Find(line, "/", "*")
             after == clean_line(SubSeq(line, start + 2, Len(line)), TRUE)
         IN  [text |-> SubSeq(line, 1, start - 1) \o after.text, multi |-> after.multi]
    ELSE IF Find(line, "/", "/") # 0
    THEN [text |-> SubSeq(line, 1, Find(line, "/", "/") - 1), multi |-> FALSE]
    ELSE [text |-> line, multi |-> FALSE]

\* str::trim
IsWhitespace(b) == b \in {SP, CR, LF}

RECURSIVE trim_start(_)
trim_start(s) ==
    IF s # <<>> /\ IsWhitespace(Head(s)) THEN trim_start(Tail(s)) ELSE s

RECURSIVE trim_end(_)
trim_end(s) ==
    IF s # <<>> /\ IsWhitespace(s[Len(s)]) THEN trim_end(SubSeq(s, 1, Len(s) - 1)) ELSE s

trim(s) == trim_end(trim_start(s))

\* A file holding the same content with CRLF line endings: every LF is
\* written as CR LF.
RECURSIVE WithCRLF(_)
WithCRLF(bytes) ==
    IF bytes = <<>> THEN <<>>
    ELSE (IF Head(bytes) = LF THEN <<CR, LF>> ELSE <<Head(bytes)>>) \o WithCRLF(Tail(bytes))

None == [some |-> FALSE, fed |-> <<>>]
Some(fed) == [some |-> TRUE, fed |-> fed]

InitFp ==
    /\ ArchiveIdle
    /\ VsiIdle
    /\ ExpIdle
    /\ ListIdle
    /\ f_stream \in Streams
    /\ f_pc = "raw"
    /\ f_check = <<>>
    /\ f_raw = <<>>
    /\ f_lines = <<>>
    /\ f_buffered = <<>>
    /\ f_multi = FALSE
    /\ f_out = <<>>
    /\ f_cs = <<>>
    /\ f_raw_crlf = <<>>

\* fingerprint::raw(stream), then stream.seek(Start(0))
Raw ==
    /\ f_pc = "raw"
    /\ f_check' = <<content_is_binary(f_stream)>>
    /\ f_raw' = <<raw(f_stream)>>
    /\ f_pc' = "stripped"
    /\ UNCHANGED <<archiveVars, vsiVars, expVars, listVars, f_stream, f_lines, f_buffered,
                   f_multi, f_out, f_cs, f_raw_crlf>>

\* comment_stripped up to the loop of comment_strip: Ok(None) for a binary
\* stream.
CommentStripped ==
    /\ f_pc = "stripped"
    /\ LET check == content_is_binary(f_stream)
       IN  /\ f_check' = <<check>>
           /\ IF check.is_binary
              THEN /\ f_cs' = <<None>>
                   /\ f_pc' = "other"
                   /\ UNCHANGED f_lines
              ELSE /\ f_lines' = Lines(Chain(check, f_stream))
                   /\ f_pc' = "lines"
                   /\ UNCHANGED f_cs
    /\ UNCHANGED <<archiveVars, vsiVars, expVars, listVars, f_stream, f_raw, f_buffered,
                   f_multi, f_out, f_raw_crlf>>

\* One turn of the loop over the lines.
StripLine ==
    /\ f_pc = "lines"
    /\ f_lines # <<>>
    /\ f_out' = IF f_buffered # <<>> THEN f_out \o f_buffered \o <<LF>> ELSE f_out
    /\ LET cleaned == clean_line(Head(f_lines), f_multi)
       IN  /\ f_buffered' = trim(cleaned.text)
           /\ f_multi' = cleaned.multi
    /\ f_lines' = Tail(f_lines)
    /\ UNCHANGED <<archiveVars, vsiVars, expVars, listVars, f_stream, f_pc, f_check, f_raw,
                   f_cs, f_raw_crlf>>

\* After the loop: the buffered line is written without a newline.
StripEnd ==
    /\ f_pc = "lines"
    /\ f_lines = <<>>
    /\ f_out' = f_out \o f_buffered
    /\ f_cs' = <<Some(f_out')>>
    /\ f_pc' = "other"
    /\ UNCHANGED <<archiveVars, vsiVars, expVars, listVars, f_stream, f_check, f_raw,
                   f_lines, f_buffered, f_multi, f_raw_crlf>>

\* raw of the file that holds the same content with CRLF line endings.
RawOfCRLF ==
    /\ f_pc = "other"
    /\ f_raw_crlf' = <<raw(WithCRLF(f_stream))>>
    /\ f_pc' = "done"
    /\ UNCHANGED <<archiveVars, vsiVars, expVars, listVars, f_stream, f_check, f_raw,
                   f_lines, f_buffered, f_multi, f_out, f_cs>>

NextFp ==
    \/ Raw
    \/ CommentStripped
    \/ StripLine
    \/ StripEnd
    \/ RawOfCRLF

SpecFp == InitFp /\ [][NextFp]_vars

\* The walker is an OS thread that the scheduler keeps running, and the
\* consumer keeps calling next() on the iterator: a send that waits for the
\* consumer completes.
SpecWalkFair ==
    /\ Spec
    /\ WF_vars(WalkerPop \/ WalkerEntry \/ WalkerFinishTarget \/ WalkerSendFail)
    /\ WF_vars(\E keep \in BOOLEAN : Receive(keep))

\* ================================================== properties of walk
\* The walk ran to its end with the consumer receiving every item.
WalkComplete == wpc = "exit" /\ rxOpen

\* Every item that left the walker: received or being sent.
Emitted == received \o pending

\* The directories made by strategies.expand that became a WalkTarget.
WalkedTemps == {d \in 1..Len(tmp) : tmp[d].walked}

\* The walker has finished iterating the target of directory d.
MovedPast(d) ==
    /\ \A k \in 1..Len(queue) : queue[k].dir # d
    /\ cur = <<>> \/ cur[1].dir # d

LiveEntriesOf(d) == {i \in live : received[i].target.dir = d}

\* C1: while an Entry yielded from a temp-backed target is alive (kept by the
\* consumer or in the item being sent), the target's temporary directory is
\* on disk, also after the walker has moved past the target or has exited.
C1_EntriesKeepDirsAlive ==
    /\ \A i \in live :
          received[i].target.temp => received[i].target.dir \in tmpExists
    /\ \A k \in 1..Len(pending) :
          (pending[k].ok /\ pending[k].target.temp)
              => pending[k].target.dir \in tmpExists

\* C1 witness: the walker has exited and the consumer still holds an Entry
\* of an extracted archive.
C1_Witness ==
    /\ wpc = "exit"
    /\ \E i \in live : received[i].target.temp

\* C2: once the walker has finished iterating a temp-backed target and no
\* Entry yielded from it is alive, the target's directory is not on disk.
C2_DirRemovedAfterLastDrop ==
    \A d \in WalkedTemps :
        (MovedPast(d) /\ LiveEntriesOf(d) = {}) => d \notin tmpExists

\* C2 witness: entries of a temp-backed target were received and kept, the
\* walker moved past it, the last of them is dropped and the receiver is
\* still there.
C2_Witness ==
    /\ rxOpen
    /\ \E d \in WalkedTemps :
          /\ MovedPast(d)
          /\ LiveEntriesOf(d) = {}
          /\ \E i \in 1..Len(received) :
                received[i].ok /\ received[i].target.dir = d
          /\ d \notin tmpExists

\* C3 (as claimed): after the walk has ended and every Entry is dropped, no
\* directory made by strategies.expand is left on disk.
C3_NoTempDirLeft ==
    (WalkComplete /\ live = {}) => tmpExists = {}

\* Number of occurrences of a non-empty postfix in a logical path.
PostfixCount(logical) ==
    LET n == Len(options.archive_postfix)
    IN  IF n = 0 THEN 0
        ELSE Cardinality({i \in 1..(Len(logical) - n + 1) :
                            SubSeq(logical, i, i + n - 1) = options.archive_postfix})

RootIsArchive ==
    root.kind = "file" /\ ext_is_supported(root.path) /\ root.valid

\* C5 (as claimed): a root that is an archive is expanded whatever the depth
\* bound, so a complete walk emits entries from inside it.
C5_RootArchiveNotCounted ==
    (WalkComplete /\ RootIsArchive /\ options.recursion.enabled
        /\ options.filter = DefaultFilter)
    => \E i \in 1..Len(received) : received[i].ok /\ received[i].target.temp

\* The entry's path relative to the directory of its target.
RelOf(item) == strip_prefix(DirPath(item.target.dir), item.concrete).path

\* C6 (as claimed): an entry from the extraction directory of the archive at
\* logical path P has logical path P + postfix + "/" + relative path.
C6_VirtualPathAlwaysSeparated ==
    \A k \in 1..Len(Emitted) :
        (Emitted[k].ok /\ Emitted[k].target.temp) =>
            Emitted[k].logical =
                tmp[Emitted[k].target.dir].src \o options.archive_postfix
                    \o <<"/">> \o RelOf(Emitted[k])

\* C6 (amended): the same, except that the "/" is left out when P + postfix
\* is empty or already ends with "/"; no name of a temporary directory
\* occurs in a logical path.
C6_VirtualPath ==
    \A k \in 1..Len(Emitted) :
        Emitted[k].ok =>
            /\ Emitted[k].target.temp =>
                 LET prefix == tmp[Emitted[k].target.dir].src \o options.archive_postfix
                 IN  Emitted[k].logical =
                        IF prefix = <<>> \/ prefix[Len(prefix)] = "/"
                        THEN prefix \o RelOf(Emitted[k])
                        ELSE prefix \o <<"/">> \o RelOf(Emitted[k])
            /\ \A j \in 1..Len(Emitted[k].logical), n \in 1..Len(TmpNames) :
                 Emitted[k].logical[j] # TmpNames[n]

\* C6 witness: an entry of an archive nested in an archive was received,
\* with a non-empty postfix.
C6_Witness ==
    \E i \in 1..Len(received) :
        /\ received[i].ok
        /\ received[i].target.depth = 2
        /\ options.archive_postfix = <<DEFAULT_ARCHIVE_POSTFIX>>
        /\ PostfixCount(received[i].logical) = 2

\* The files WalkDir finds under directory d, and the items emitted for d.
FilesOf(d) == SelectSeq(Listing(d), LAMBDA e : e.type = "file")
ItemsOf(d) == SelectSeq(received, LAMBDA it : it.target.dir = d)

\* The expansion of the file fails with an error other than NotSupported.
ExpandFails(path, valid) ==
    options.recursion.enabled /\ ext_is_supported(path) /\ ~valid

\* One item per file of every walked target, in walk order.
OneItemPerFile(d) ==
    /\ Len(ItemsOf(d)) = Len(FilesOf(d))
    /\ \A k \in 1..Len(FilesOf(d)) :
          /\ ItemsOf(d)[k].concrete = DirEntry_path(d, FilesOf(d)[k].rel)
          /\ d = 0 => ItemsOf(d)[k].logical = FilesOf(d)[k].rel

\* C7 (as claimed): with the default filter a complete walk emits exactly
\* one Ok Entry per file of every walked target.
C7_OneOkEntryPerFile ==
    (WalkComplete /\ options.filter = DefaultFilter) =>
        \A d \in {0} \cup WalkedTemps :
            /\ OneItemPerFile(d)
            /\ \A k \in 1..Len(ItemsOf(d)) : ItemsOf(d)[k].ok

\* C7 (amended): exactly one item per file of every walked target, an Ok
\* Entry unless the file's expansion fails with an error other than
\* NotSupported, in which case it is an Err item.
C7_OneItemPerFile ==
    (WalkComplete /\ options.filter = DefaultFilter) =>
        \A d \in {0} \cup WalkedTemps :
            /\ OneItemPerFile(d)
            /\ \A k \in 1..Len(ItemsOf(d)) :
                  ItemsOf(d)[k].ok <=>
                      ~ExpandFails(ItemsOf(d)[k].concrete, FilesOf(d)[k].valid)

\* C7 witness: a complete walk with the default filter of a root holding a
\* supported archive, emitted once, and entries extracted from it.
C7_Witness ==
    /\ WalkComplete
    /\ options.filter = DefaultFilter
    /\ root.kind = "dir"
    /\ \E i, j \in 1..Len(received) :
          /\ received[i].ok /\ received[j].ok
          /\ received[i].target.dir = 0
          /\ ext_is_supported(received[i].concrete)
          /\ received[j].target.temp
          /\ tmp[received[j].target.dir].src = received[i].logical

\* C9 (as claimed): with a filter that is not the default one the walker
\* fails with the filters-unsupported error and emits no entry.
C9_WalkRejectsFilters ==
    (WalkComplete /\ options.filter # DefaultFilter) =>
        /\ \E i \in 1..Len(received) :
              ~received[i].ok /\ received[i].err = "FiltersUnsupported"
        /\ \A i \in 1..Len(received) : ~received[i].ok

\* ================================================== properties of all
\* C8: expand::all with a filter other than Filter::default() returns
\* Err(FiltersUnsupported), has expanded nothing and has made no directory.
C8_AllRejectsFilters ==
    (a_pc = "done" /\ options.filter # DefaultFilter) =>
        /\ a_result = "FiltersUnsupported"
        /\ tmp = <<>>
        /\ tmpExists = {}
        /\ locations = {}

\* C8 witness: all has returned for a directory holding archives and a
\* filter whose exclude set alone differs from the default.
C8_Witness ==
    /\ a_pc = "done"
    /\ options.filter.exclude # {}
    /\ root.kind = "dir"
    /\ root.tree = "mixed"

\* C10 (as claimed): for a root that is a symbolic link, or a file that is
\* not a supported archive, all returns the invariant error at once.
C10_RootValidated ==
    (a_pc = "done" /\ options.filter = DefaultFilter) =>
        /\ root.kind = "symlink" => a_result = "TargetSymlink"
        /\ (root.kind = "file" /\ ~ext_is_supported(root.path)) =>
              (a_result = "Walkable" /\ warnings = <<>>)

\* ================================================== properties of vsi
\* The positions in calls of the requests of one kind.
CallsOf(op) == {i \in 1..Len(calls) : calls[i].op = op}

\* The entry point returned Ok.
RunSucceeded == r_pc = "done" /\ r_result.st = "ok"

\* C11: in every successful full-mode run complete_scan is issued exactly
\* once, after the artifact channel was drained and every append call has
\* returned, and no append call is started after it.
C11_CompleteOnceAfterAppends ==
    /\ RunSucceeded => Cardinality(CallsOf("complete_scan")) = 1
    /\ CallsOf("complete_scan") # {} =>
         /\ chan = <<>>
         /\ fs_pc = "exit"
         /\ u_pc = "done"
         /\ \A i \in CallsOf("append") :
              /\ calls[i].st = "ok"
              /\ \A j \in CallsOf("complete_scan") : i < j

\* C12: scan::artifacts returns Ok(n) only when the walker produced as many
\* artifacts as the upload consumer received, n being that number; when the
\* two counts differ it returns an error.
C12_OkMeansCountsAgree ==
    /\ s_result.st = "ok" =>
         /\ fs_result = Ok(produced)
         /\ Len(u_rcvd) = produced
         /\ uploaded = produced
         /\ s_result.n = produced
    /\ (s_result.st # "none" /\ produced # uploaded) => s_result.st = "err"

\* scan::artifacts returned Ok for a scan of as many artifacts as a
\* directory may hold.
C12_Witness == s_result.st = "ok" /\ s_result.n = MaxFiles

\* The concatenation of a sequence of sequences.
RECURSIVE Flatten(_)
Flatten(ss) == IF ss = <<>> THEN <<>> ELSE Head(ss) \o Flatten(Tail(ss))

\* The elements of a sequence.
Range(s) == {s[i] : i \in 1..Len(s)}

\* No request for an append was answered with an error.
SinkNeverFailed == \A i \in CallsOf("append") : calls[i].st # "err"

\* C13: with a sink that never fails, the batches passed to the sink,
\* concatenated, are exactly the sequence of artifacts received from the
\* channel (each once, none lost), every artifact sent was received, and
\* upload returns their number.
C13_UploadConservation ==
    /\ (u_pc \in {"recv", "append", "final", "done"} /\ SinkNeverFailed) =>
         /\ Flatten(batches) \o buf = u_rcvd
         /\ uploaded = Len(u_rcvd)
         /\ Cardinality(Range(u_rcvd)) = Len(u_rcvd)
    /\ u_result.st = "ok" =>
         /\ Flatten(batches) = u_rcvd
         /\ u_result.n = Len(u_rcvd)
         /\ fs_result.st = "ok" => Range(u_rcvd) = 1..Len(scanDir)

\* upload returned Ok after several chunks, the last one a remainder.
C13_Witness ==
    /\ u_result.st = "ok"
    /\ Len(batches) >= 2
    /\ Len(batches[Len(batches)]) < ARTIFACT_BUFFER_LIMIT

\* C14: every batch handed to the sink holds between 1 and
\* ARTIFACT_BUFFER_LIMIT artifacts, every batch but the last exactly
\* ARTIFACT_BUFFER_LIMIT, and no empty batch is sent: none at all when no
\* artifact is produced, none after the full ones when the total is a
\* multiple of the limit.
C14_Batching ==
    /\ \A i \in 1..Len(batches) :
         /\ Len(batches[i]) >= 1
         /\ Len(batches[i]) <= ARTIFACT_BUFFER_LIMIT
         /\ i < Len(batches) => Len(batches[i]) = ARTIFACT_BUFFER_LIMIT
    /\ (u_result.st = "ok" /\ Len(u_rcvd) % ARTIFACT_BUFFER_LIMIT = 0) =>
         Len(batches) * ARTIFACT_BUFFER_LIMIT = Len(u_rcvd)
    /\ Len(batches) = Cardinality(CallsOf("append"))

\* upload returned Ok for a total that is a multiple of the limit.
C14_Witness ==
    /\ u_result.st = "ok"
    /\ Len(u_rcvd) = ARTIFACT_BUFFER_LIMIT
    /\ Len(batches) = 1

\* ------------------------------------------- properties of wait_forensics
\* The last loop iteration of wait_forensics.
LastPoll == polls[Len(polls)]

\* A poll on which wait_forensics has to return.
Terminal(p) == ~p.ok \/ p.raw \in {"DONE", "FAILED"}

\* wait_forensics returned Ok(()) / returned an error / is still looping.
WaitOk ==
    \/ r_pc = "export"
    \/ r_pc = "done" /\ polls # <<>> /\ r_result # Err("wait for forensics")
WaitErr == r_result = Err("wait for forensics")
WaitRunning == r_pc = "wait"

\* C15: wait_forensics returns Ok exactly when a poll yields DONE, an error
\* exactly when a poll yields FAILED or the request fails; on NOT_STARTED
\* and on any other status it polls again, so it never returns while only
\* such statuses were seen, and a DONE answer makes it return Ok.
C15_ReturnsOnTerminalOnly ==
    /\ WaitOk <=> (polls # <<>> /\ LastPoll.ok /\ LastPoll.raw = "DONE")
    /\ WaitErr <=> (polls # <<>> /\ (~LastPoll.ok \/ LastPoll.raw = "FAILED"))
    /\ \A i \in 1..Len(polls) : Terminal(polls[i]) => i = Len(polls)
    /\ WaitRunning => \A i \in 1..Len(polls) : ~Terminal(polls[i])
    /\ (polls # <<>> /\ ~Terminal(LastPoll)) => WaitRunning
    /\ (WaitRunning /\ Len(polls) < MaxPolls) => ENABLED (\E ans \in PollAnswers : Poll(ans))

\* wait_forensics returned Ok after NOT_STARTED and an informational status.
C15_Witness ==
    /\ WaitOk
    /\ Len(polls) >= 3
    /\ polls[1].raw = "NOT_STARTED"
    /\ polls[2].raw = "ANALYZING"

\* C16: between any two consecutive forensics_status requests the loop
\* performs the 1-second sleep; two requests are never issued back to back.
C16_SleepBetweenPolls ==
    \A i \in 1..Len(polls) : i < Len(polls) => polls[i].slept

\* The poll is the first one or its status is not that of the poll before.
IsTransition(i) ==
    i = 1 \/ Status_parse(polls[i].raw) # Status_parse(polls[i-1].raw)

\* C17 as stated: a status line is logged for a poll if and only if it is
\* the first poll or its status differs from that of the preceding poll.
C17_LoggedIffTransition ==
    \A i \in 1..Len(polls) : polls[i].ok => (polls[i].logged <=> IsTransition(i))

\* C17, amended: for every poll but a FAILED one, a status line is logged if
\* and only if it is the first poll or its status differs from that of the
\* preceding poll (informational statuses compared by their string); a
\* FAILED poll, like a failed request, logs nothing and ends in an error.
C17_LoggedIffTransitionUnlessFailed ==
    \A i \in 1..Len(polls) :
        IF polls[i].ok /\ polls[i].raw # "FAILED"
        THEN polls[i].logged <=> IsTransition(i)
        ELSE ~polls[i].logged /\ WaitErr

\* An informational status was polled twice and then another one.
C17_Witness ==
    /\ Len(polls) >= 3
    /\ polls[1].raw = "ANALYZING" /\ polls[1].logged
    /\ polls[2].raw = "ANALYZING" /\ ~polls[2].logged
    /\ polls[3].raw = "MATCHING" /\ polls[3].logged

\* ------------------------------------------------ properties of vsi::run
\* The place of a request in the protocol.
Phase(op) ==
    CASE op = "create_scan"        -> 1
      [] op = "append"             -> 2
      [] op = "complete_scan"      -> 3
      [] op = "forensics_status"   -> 4
      [] op = "download_forensics" -> 5

\* The context run puts on the error of a request.
ErrorOf(op) ==
    CASE op = "create_scan"        -> "create scan"
      [] op = "append"             -> "scan artifacts"
      [] op = "complete_scan"      -> "mark scan complete"
      [] op = "forensics_status"   -> "wait for forensics"
      [] op = "download_forensics" -> "download forensics"

\* C18: the requests of vsi::run come as create_scan, then zero or more
\* appends, then complete_scan, then one or more forensics_status polls,
\* then download_forensics only if forensics finished and export is
\* Locators; if a request fails, run returns that error and makes no later
\* request.
C18_ProtocolOrder ==
    mode = "run" =>
      /\ \A i, j \in 1..Len(calls) : i < j => Phase(calls[i].op) <= Phase(calls[j].op)
      /\ \A op \in {"create_scan", "complete_scan", "download_forensics"} :
           Cardinality(CallsOf(op)) <= 1
      /\ calls # <<>> => calls[1].op = "create_scan"
      /\ CallsOf("forensics_status") # {} => CallsOf("complete_scan") # {}
      /\ CallsOf("download_forensics") # {} =>
           /\ export = "Locators"
           /\ polls # <<>> /\ LastPoll.ok /\ LastPoll.raw = "DONE"
      /\ \A i \in 1..Len(calls) :
           calls[i].st \in {"err", "dropped"} =>
             /\ i = Len(calls)
             /\ r_pc \in {"scan", "done"}
             /\ r_pc = "done" => r_result = Err(ErrorOf(calls[i].op))
      /\ RunSucceeded =>
           /\ \A i \in 1..Len(calls) : calls[i].st = "ok"
           /\ CallsOf("complete_scan") # {}
           /\ polls # <<>> /\ LastPoll.raw = "DONE"
           /\ export = "Locators" <=> CallsOf("download_forensics") # {}

\* run returned the locators after several appends and several polls.
C18_Witness ==
    /\ mode = "run"
    /\ RunSucceeded
    /\ export = "Locators"
    /\ Cardinality(CallsOf("append")) >= 2
    /\ Cardinality(CallsOf("forensics_status")) >= 2

\* ---------------------------------------- properties of scan::artifacts
\* A request for an append was answered with an error.
AppendFailed == \E i \in CallsOf("append") : calls[i].st = "err"

\* What holds in every state once an append has failed.
SinkFailureStops ==
    AppendFailed =>
      /\ \A i \in CallsOf("append") : calls[i].st = "err" => i = Len(calls)
      /\ u_pc = "done" /\ u_result.st = "err"
      /\ ~rxAlive
      /\ s_result.st # "none" => (s_result = u_result /\ cancelled)
      /\ \A t \in Workers : (fs_pc = "run" /\ tasks[t] # 0) => ENABLED TaskSend(t)
      /\ fs_pc = "exit" =>
           (fs_result.st = "err" =>
              fs_result.err \in {"send entry", "cancellation requested", "fingerprint",
                                 "iterate contents"})

CancelledStep ==
    /\ ~rxOpen => received' = received
    /\ (~rxOpen /\ wpc = "send" /\ wpc' # "send") =>
         /\ wpc' = "exit"
         /\ queue' = <<>>
         /\ cur' = <<>>
         /\ pending' = <<>>
         /\ tmp' = tmp
    /\ wpc = "exit" => UNCHANGED <<wpc, queue, cur, idx, pending, tmp>>

\* C20: after the iterator returned by expand::walk is dropped, the next
\* send of the walker thread fails and the thread exits without dequeuing
\* or walking any further target and without emitting anything more.
C20_WalkerCancellation == [][CancelledStep]_vars

\* The walker exited on a failed send while a queued archive directory,
\* holding files, had not been walked.
C20_Witness ==
    /\ ~rxOpen
    /\ wpc = "exit"
    /\ options.filter = DefaultFilter
    /\ \E d \in WalkedTemps :
         /\ tmp[d].tree = "simple"
         /\ \A i \in 1..Len(received) : received[i].target.dir # d

\* ------------------------------------------ properties of error handling
\* The directory-iteration failures WalkDir meets under directory d.
WalkErrorsOf(d) == SelectSeq(Listing(d), LAMBDA e : e.type = "err")

\* The Err(Error::Walk) items the consumer got.
WalkErrItems == SelectSeq(received, LAMBDA x : ~x.ok /\ x.err = "Walk")

\* C21: a directory-iteration failure met while walking a target reaches
\* the consumer as an Err item of the entry stream, and the walker goes on
\* to emit the remaining entries and targets.
C21_WalkErrorReachesConsumer ==
    WalkComplete =>
        /\ \A d \in {0} \cup WalkedTemps :
              WalkErrorsOf(d) # <<>> => WalkErrItems # <<>>
        /\ options.filter = DefaultFilter =>
              \A d \in {0} \cup WalkedTemps : Len(ItemsOf(d)) >= Len(FilesOf(d))

\* The entries of the scanned directory that are readable files.
GoodFiles == {i \in 1..Len(scanDir) : scanDir[i] = "ok"}

\* C22: in the scan producer a directory-iteration failure for one path
\* does not abort the scan: the artifacts of the remaining files are still
\* produced and uploaded and scan::artifacts completes.
C22_WalkErrorDoesNotAbortScan ==
    (/\ s_result.st # "none"
     /\ SinkNeverFailed
     /\ \A i \in 1..Len(scanDir) : scanDir[i] \in {"ok", "err"}) =>
        /\ s_result.st = "ok"
        /\ Range(Flatten(batches)) = GoodFiles

\* ------------------------------------------- properties of the Expansion
\* C23: every run of Expansion::cleanup attempts to delete every destination
\* the locations map holds, leaves the map empty whether or not deletions
\* failed, and returns Ok or the errors of the deletions that failed; every
\* run after the first, by a call or by Drop, attempts no deletion and
\* returns Ok.
C23_CleanupOnceThenNoOp ==
    /\ cleanups # <<>> => locations = {}
    /\ \A k \in 1..Len(cleanups) :
          LET c == cleanups[k]
          IN  /\ c.attempted = Destinations(c.held)
              /\ c.result.ok <=> c.result.errors = {}
              /\ c.result.errors \subseteq c.attempted
              /\ (c.attempted \ c.result.errors) \cap tmpExists = {}
              /\ k > 1 => c.attempted = {} /\ c.result.ok

C23_Witness ==
    /\ Len(cleanups) = 3
    /\ Cardinality(cleanups[1].attempted) >= 2
    /\ ~cleanups[1].result.ok
    /\ cleanups[1].result.errors # cleanups[1].attempted
    /\ cleanups[3].by = "drop"

\* C24: Expansion::persist returns exactly the locations map and the
\* warnings held when it is called, and neither persist nor anything after
\* it deletes a destination directory or runs cleanup.
C24_PersistKeepsDirectories ==
    [][/\ (e_pc = "held" /\ e_pc' = "persisted") =>
              /\ p_result' = <<[locations |-> locations, warnings |-> warnings]>>
              /\ tmpExists' = tmpExists
              /\ cleanups' = cleanups
       /\ e_pc = "persisted" =>
              /\ tmpExists' = tmpExists
              /\ cleanups' = cleanups
              /\ p_result' = p_result]_vars

C24_Witness ==
    /\ e_pc = "persisted"
    /\ cleanups = <<>>
    /\ Cardinality(p_result[1].locations) >= 2
    /\ p_result[1].warnings # <<>>
    /\ Destinations(p_result[1].locations) \subseteq tmpExists

\* -------------------------------------------- properties of List::expand
LastConsulted == l_consulted[Len(l_consulted)]

\* C25: List::expand asks the strategies in registration order and goes on
\* to the next only after NotSupported; the first strategy whose can_expand
\* succeeds does the expansion, any other can_expand error is returned as
\* it is, and a path that none supports, Deny being last, gives NotSupported.
C25_FirstSupportingStrategy ==
    /\ \A k \in 1..Len(l_consulted) :
          /\ l_consulted[k].strategy = Strategies[k]
          /\ k < Len(l_consulted) => l_consulted[k].answer = "NotSupported"
    /\ Strategies[Len(Strategies)] = "deny"
    /\ l_result # "none" =>
          /\ l_consulted # <<>>
          /\ LastConsulted.answer = "Ok" =>
                l_result = strategy_expand(LastConsulted.strategy, l_valid)
          /\ LastConsulted.answer \notin {"Ok", "NotSupported"} =>
                l_result = LastConsulted.answer
          /\ LastConsulted.answer = "NotSupported" =>
                /\ l_result = "NotSupported"
                /\ Len(l_consulted) = Len(Strategies)
          /\ l_open = "ok" => l_result = List_expand(l_archive, l_valid)

C25_Witness ==
    /\ l_result = "IO"
    /\ Len(l_consulted) = 1
    /\ l_consulted[1].strategy = "libarchive"

\* The file name as the string ends_with sees, character by character.
TokenChars(token) ==
    CASE token = "foo"       -> <<"f", "o", "o">>
      [] token = "FOO"       -> <<"F", "O", "O">>
      [] token = "not-a-tar" -> <<"n", "o", "t", "-", "a", "-", "t", "a", "r">>
      [] token = ".zip"      -> <<".", "z", "i", "p">>
      [] token = ".ZIP"      -> <<".", "Z", "I", "P">>
      [] token = ".tar"      -> <<".", "t", "a", "r">>
      [] token = ".gz"       -> <<".", "g", "z">>
      [] token = ".xz"       -> <<".", "x", "z">>
      [] token = ".bz2"      -> <<".", "b", "z", "2">>
      [] token = ".rpm"      -> <<".", "r", "p", "m">>
      [] token = ".txt"      -> <<".", "t", "x", "t">>
      [] OTHER               -> <<token>>

RECURSIVE to_string_lossy(_)
to_string_lossy(name) ==
    IF name = <<>> THEN <<>> ELSE TokenChars(Head(name)) \o to_string_lossy(Tail(name))

ExtStrings ==
    { <<".", "z", "i", "p">>,
      <<".", "t", "a", "r">>,
      <<".", "t", "a", "r", ".", "g", "z">>,
      <<".", "t", "a", "r", ".", "x", "z">>,
      <<".", "t", "a", "r", ".", "b", "z", "2">>,
      <<".", "r", "p", "m">> }

NameString == to_string_lossy(FileName(l_archive))
NameHasSupportedExt == \E ext \in ExtStrings : EndsWith(NameString, ext)
LibarchiveAnswer == l_consulted[1].answer

Name_foo_tar_gz == <<"f", "o", "o", ".", "t", "a", "r", ".", "g", "z">>
Name_not_a_tar_gz == <<"n", "o", "t", "-", "a", "-", "t", "a", "r", ".", "g", "z">>
Name_FOO_ZIP == <<"F", "O", "O", ".", "Z", "I", "P">>

\* C26 as stated: for a file that can be opened, libarchive accepts the path
\* iff its file name ends with one of the six extensions, every other file
\* is NotSupported, foo.tar.gz and not-a-tar.gz are accepted and FOO.ZIP is
\* not.
C26_AcceptedIffExtensionAsStated ==
    (l_consulted # <<>> /\ l_open = "ok") =>
        /\ LibarchiveAnswer = "Ok" <=> NameHasSupportedExt
        /\ ~NameHasSupportedExt => LibarchiveAnswer = "NotSupported"
        /\ NameString = Name_foo_tar_gz => LibarchiveAnswer = "Ok"
        /\ NameString = Name_not_a_tar_gz => LibarchiveAnswer = "Ok"
        /\ NameString = Name_FOO_ZIP => LibarchiveAnswer # "Ok"

\* C26: libarchive answers NotSupported iff the file name does not end,
\* case-sensitively, with one of the six extensions, and accepts every other
\* file that can be opened; foo.tar.gz is accepted, not-a-tar.gz (which ends
\* with .gz only) and FOO.ZIP are NotSupported.
C26_AcceptedIffExtension ==
    l_consulted # <<>> =>
        /\ LibarchiveAnswer = "NotSupported" <=> ~NameHasSupportedExt
        /\ l_open = "ok" => (LibarchiveAnswer = "Ok" <=> NameHasSupportedExt)
        /\ (NameString = Name_foo_tar_gz /\ l_open = "ok") => LibarchiveAnswer = "Ok"
        /\ NameString = Name_not_a_tar_gz => LibarchiveAnswer = "NotSupported"
        /\ NameString = Name_FOO_ZIP => LibarchiveAnswer = "NotSupported"

C26_Witness ==
    /\ l_consulted # <<>>
    /\ NameString = Name_not_a_tar_gz
    /\ LibarchiveAnswer = "NotSupported"
    /\ l_open = "ok"

\* ------------------------------------------- properties of fingerprints
\* The lines comment stripping leaves: each line cleaned of comments in
\* turn, trimmed, and kept when something is left of it.
RECURSIVE StrippedLines(_, _)
StrippedLines(lines, multi) ==
    IF lines = <<>> THEN <<>>
    ELSE LET cleaned == clean_line(Head(lines), multi)
             text == trim(cleaned.text)
         IN  (IF text = <<>> THEN <<>> ELSE <<text>>)
                 \o StrippedLines(Tail(lines), cleaned.multi)

RECURSIVE JoinLF(_)
JoinLF(lines) ==
    IF lines = <<>> THEN <<>>
    ELSE IF Len(lines) = 1 THEN lines[1]
    ELSE lines[1] \o <<LF>> \o JoinLF(Tail(lines))

StrippedOutput == f_cs[1].fed

\* C27: the output of comment stripping is the non-empty trimmed lines left
\* after comment removal joined by single newlines: no line of it is empty
\* or begins or ends with whitespace, and it does not end with a newline.
C27_StrippedOutputShape ==
    (f_cs # <<>> /\ f_cs[1].some) =>
        /\ StrippedOutput = JoinLF(StrippedLines(Lines(f_stream), FALSE))
        /\ StrippedOutput # <<>> =>
              /\ ~IsWhitespace(StrippedOutput[1])
              /\ ~IsWhitespace(StrippedOutput[Len(StrippedOutput)])
        /\ \A i \in 1..(Len(StrippedOutput) - 1) :
              /\ StrippedOutput[i] = LF => ~IsWhitespace(StrippedOutput[i + 1])
              /\ StrippedOutput[i + 1] = LF => ~IsWhitespace(StrippedOutput[i])

\* A line read from left to right: outside a multi-line comment "//" ends
\* the line's content and "/*" opens a comment, inside one "*/" closes it.
\* single tells whether a "//" outside a multi-line comment was met.
RECURSIVE Scan(_, _, _)
Scan(line, i, multi) ==
    IF i > Len(line) THEN [text |-> <<>>, multi |-> multi, single |-> FALSE]
    ELSE IF multi
    THEN IF i < Len(line) /\ line[i] = "*" /\ line[i + 1] = "/"
         THEN Scan(line, i + 2, FALSE)
         ELSE Scan(line, i + 1, TRUE)
    ELSE IF i < Len(line) /\ line[i] = "/" /\ line[i + 1] = "/"
    THEN [text |-> <<>>, multi |-> FALSE, single |-> TRUE]
    ELSE IF i < Len(line) /\ line[i] = "/" /\ line[i + 1] = "*"
    THEN Scan(line, i + 2, TRUE)
    ELSE [Scan(line, i + 1, FALSE) EXCEPT !.text = <<line[i]>> \o @]

\* C28: when a line holds "//" outside a multi-line comment, everything
\* from it to the end of the line is dropped, a "/*" after it included, and
\* the multi-line state is inactive after the line.
C28_SingleLineComment ==
    [][(/\ f_pc = "lines"
        /\ f_lines # <<>>
        /\ f_lines' = Tail(f_lines)
        /\ Scan(Head(f_lines), 1, f_multi).single) =>
            /\ f_multi' = FALSE
            /\ f_buffered' = trim(Scan(Head(f_lines), 1, f_multi).text)]_vars

NulInPrefix ==
    \E i \in 1..Len(f_stream) : i <= BinaryCheckBytes /\ f_stream[i] = NUL

HasCRLF(bytes) ==
    \E i \in 1..(Len(bytes) - 1) : bytes[i] = CR /\ bytes[i + 1] = LF

\* C29: the stream is classified binary iff a NUL byte is among its first
\* BinaryCheckBytes bytes, whatever comes later; for such a stream raw
\* hashes the bytes as they are and comment_stripped returns None.
C29_BinaryDetection ==
    /\ f_check # <<>> => (f_check[1].is_binary <=> NulInPrefix)
    /\ (f_raw # <<>> /\ NulInPrefix) => f_raw[1] = f_stream
    /\ (f_cs # <<>> /\ NulInPrefix) => ~f_cs[1].some

C29_Witness ==
    /\ f_pc = "done"
    /\ NulInPrefix
    /\ HasCRLF(f_stream)
    /\ f_raw[1] = f_stream
    /\ f_cs = <<None>>

\* C30: for content that is not binary, written with LF line endings, the
\* raw fingerprint of the file written with CRLF line endings is the raw
\* fingerprint of the content itself: what is hashed for the CRLF file is
\* the content, every CR LF having become LF and nothing else changed.
C30_LineEndingIndependence ==
    (f_raw_crlf # <<>> /\ ~NulInPrefix /\ ~HasCRLF(f_stream)) =>
        /\ f_raw_crlf = f_raw
        /\ f_raw_crlf[1] = f_stream

C30_Witness ==
    /\ f_pc = "done"
    /\ ~NulInPrefix
    /\ ~HasCRLF(f_stream)
    /\ Len(SelectSeq(f_stream, LAMBDA b : b = LF)) >= 2
    /\ \E i \in 1..Len(f_stream) : f_stream[i] = CR
    /\ f_raw_crlf = f_raw

\* ------------------------------------------- properties of the pipeline
\* The chunk handed to the sink by the request that is still awaited.
InFlight ==
    IF u_pc \in {"append", "final"} THEN Len(batches[Len(batches)]) ELSE 0

ListingIndex(item) ==
    CHOOSE k \in 1..Len(Listing(item.target.dir)) :
        DirEntry_path(item.target.dir, Listing(item.target.dir)[k].rel) = item.concrete

\* C32: the items come target by target in the order the targets were
\* enqueued, within a target in the order of its directory walk; an
\* archive's own entry comes before every entry extracted from it.
C32_WalkerOrdering ==
    /\ \A i, j \in 1..Len(received) :
          i < j =>
              \/ received[i].target.dir < received[j].target.dir
              \/ /\ received[i].target.dir = received[j].target.dir
                 /\ ListingIndex(received[i]) < ListingIndex(received[j])
    /\ \A j \in 1..Len(received) :
          LET d == received[j].target.dir
          IN  d > 0 =>
                /\ \A i \in 1..Len(received) : received[i].logical = tmp[d].src => i < j
                /\ options.filter = DefaultFilter =>
                      \E i \in 1..(j - 1) : received[i].logical = tmp[d].src

C32_Witness ==
    /\ WalkComplete
    /\ root.tree = "pair"
    /\ \E i, j, k \in 1..Len(received) :
          /\ received[i].target.dir = 1
          /\ received[j].target.dir = 2
          /\ received[k].target.dir = 3

\* --------------------------------------- properties of expansion errors
\* The entry the walker renders for the directory entry it is at.
CurrentEntry ==
    Entry_derived(cur[1], cur[1].parent, DirPath(cur[1].dir),
                  DirEntry_path(cur[1].dir, Listing(cur[1].dir)[idx].rel))

\* The walker is at a file that reaches the process closure.
AtProcessedFile ==
    /\ wpc = "iter"
    /\ idx <= Len(Listing(cur[1].dir))
    /\ Listing(cur[1].dir)[idx].type = "file"
    /\ CurrentEntry.ok
    /\ ~Filter_excludes(options.filter, CurrentEntry.logical)

RECURSIVE SingleAt(_, _, _)
SingleAt(line, i, multi) ==
    IF i >= Len(line) THEN 0
    ELSE IF multi
    THEN IF line[i] = "*" /\ line[i + 1] = "/"
         THEN SingleAt(line, i + 2, FALSE)
         ELSE SingleAt(line, i + 1, TRUE)
    ELSE IF line[i] = "/" /\ line[i + 1] = "/" THEN i
    ELSE IF line[i] = "/" /\ line[i + 1] = "*" THEN SingleAt(line, i + 2, TRUE)
    ELSE SingleAt(line, i + 1, FALSE)

\* Every "/*" of the line lies outside a single-line comment.
NoOpenerInSingle(line, multi) ==
    \/ SingleAt(line, 1, multi) = 0
    \/ Find(SubSeq(line, SingleAt(line, 1, multi), Len(line)), "/", "*") = 0

C35_WalkerTerminates ==
    /\ <>(wpc = "exit" /\ queue = <<>> /\ cur = <<>> /\ pending = <<>>)
    /\ [](\A i \in 1..Len(queue) : queue[i].depth <= options.recursion.depth)

C35_Witness ==
    /\ WalkComplete
    /\ root.tree = "loop"
    /\ options.recursion.enabled
    /\ options.recursion.depth >= 1
    /\ WalkedTemps # {}
    /\ \E d \in 1..Len(tmp) : ~tmp[d].walked
    /\ \E i \in 1..Len(received) : received[i].ok /\ received[i].target.dir # 0

Holders(d) ==
    Cardinality({k \in 1..Len(queue) : queue[k].dir = d})
    + StrongCount(d, cur, pending, live, received)

\* The target the walker iterates is temp-backed and on disk.
IteratedDirExists == (cur # <<>> /\ cur[1].temp) => cur[1].dir \in tmpExists

\* A walked directory leaves the disk only in the step that releases its
\* last holder, and a target without holders is never held again.
RemovedWithLastHolder ==
    \A d \in WalkedTemps :
        /\ (d \in tmpExists /\ d \notin tmpExists') => (Holders(d) > 0 /\ Holders(d)' = 0)
        /\ Holders(d) = 0 => (Holders(d)' = 0 /\ d \notin tmpExists /\ d \notin tmpExists')

\* C37: the directory of the temp-backed target the walker iterates is on
\* disk whatever the consumer did with the entries yielded from it, and the
\* removal of WalkTarget's Drop runs once, with the release of the last
\* holder.
C37_IteratedTargetStaysOnDisk ==
    /\ []IteratedDirExists
    /\ [][RemovedWithLastHolder]_vars

C37_Witness ==
    /\ wpc = "iter"
    /\ cur # <<>>
    /\ cur[1].temp
    /\ idx <= Len(Listing(cur[1].dir))
    /\ cur[1].dir \in tmpExists
    /\ pending = <<>>
    /\ LiveEntriesOf(cur[1].dir) = {}
    /\ \E i \in 1..Len(received) : received[i].ok /\ received[i].target.dir = cur[1].dir

\* C38: after the receiver was dropped during a walk, once the walker
\* thread has exited and no Entry is alive, the directory of every
\* temp-backed target is gone from the disk: the one that was being walked
\* and those still queued, the one enqueued right before the failed send
\* included.
C38_CancelledWalkRemovesTargets ==
    (wpc = "exit" /\ ~rxOpen /\ live = {}) => WalkedTemps \cap tmpExists = {}

\* The send of an archive's own entry failed right after its target was
\* enqueued, while another temp-backed target was being walked.
C38_Witness ==
    /\ wpc = "exit"
    /\ ~rxOpen
    /\ live = {}
    /\ options.filter = DefaultFilter
    /\ Cardinality(WalkedTemps) >= 2
    /\ WalkedTemps \cap tmpExists = {}
    /\ \E i \in 1..Len(received) : received[i].ok /\ received[i].target.temp
    /\ \E d \in WalkedTemps : \A i \in 1..Len(received) : received[i].logical # tmp[d].src

\* C39 (as claimed): when expand::all has returned, every directory made by
\* a successful expansion that is still on disk is a destination recorded
\* in Expansion.locations; an attempt skipped at the recursion limit and the
\* attempts queued when expand_layer fails are covered.
C39_ExpandedDirsAccountedFor ==
    a_pc = "done" => tmpExists \subseteq Destinations(locations)

====
